---- MODULE Spec2Model ----
(***************************************************************************)
(* The audio engine core of the tracker: the instrument node (voice pool,  *)
(* allocation and stealing, release and cleanup timers, instrument         *)
(* updates) and the playback scheduler (lookahead loop, two-pass row       *)
(* dispatch, note-off memory per track, parameter automation).             *)
(*                                                                         *)
(* Times are integers in milliseconds.  JavaScript runs each handler to    *)
(* completion: the variable pc says whether the scheduler's catch-up loop  *)
(* is in progress, and every other handler is enabled only between passes. *)
(* An exception raised inside a handler ends it where it is raised: what   *)
(* the handler had written so far stays written.                           *)
(***************************************************************************)
EXTENDS Integers, Sequences, FiniteSets, TLC

VARIABLES
    now,              \* AudioContext.currentTime, in ms
    instruments,      \* AudioEngine.instruments: id -> InstrumentNode
    call,             \* the call the last step made into the nodes, if any
    pc,               \* "idle", or "loop" inside PlaybackScheduler.scheduler()
    currentPattern,   \* PlaybackScheduler fields
    currentSong,
    isPlaying,
    currentRow,
    currentSequence,
    nextNoteTime,
    tempo,
    timerID,
    lastNotePerTrack,
    rowTrace,         \* what the last dispatched row did, note by note
    audio,            \* AudioEngine.userHasActivatedAudioContext
    masterGain,       \* AudioEngine.masterGain.gain.value, in percent
    samples,          \* AudioEngine.samples (and sampleData): the ids that have one
    events,           \* the events the last step emitted, in order
    codec,            \* a note, its string, the string parsed, that formatted
    loading,          \* loadProject is inside the play() that restarts playback
    loads             \* the loadProject calls waiting at their await, in the
                      \* order their continuations are queued

vars == <<now, instruments, call, pc, currentPattern, currentSong, isPlaying,
          currentRow, currentSequence, nextNoteTime, tempo, timerID,
          lastNotePerTrack, rowTrace, audio, masterGain, samples, events,
          codec, loading, loads>>

\* What only initAudioContext, setVolume, the sample and project loaders and
\* the note codec write.
engineVars == <<audio, masterGain, samples, codec, loads>>

schedVars == <<pc, currentPattern, currentSong, isPlaying, currentRow,
               currentSequence, nextNoteTime, tempo, timerID,
               lastNotePerTrack, rowTrace, loading>>

----------------------------------------------------------------------------
\* Bounds of the model.

\* Largest maxVoices of the instruments the editor registers.
MaxVoices == 2
\* The audio clock advances in steps of TimeStep, at most MaxTicks times.
MaxTicks == 2

\* The scheduler's note time is followed down to MaxRewind before time 0.
MaxRewind == 300
\* At most MaxLoads calls of loadProject wait at their await at a time.
MaxLoads == 2

\* Program constants.
NOTE_OFF_TONE == 61
PARAM_EFFECT == 255
OSCILLATOR_DETUNE == 1
FILTER_FREQUENCY == 17
FILTER_RESONANCE == 18
VOLUME == 64
PAN == 65
MAX_VOICES == 66
LFO1_FREQUENCY == 81
LFO1_DEPTH == 82
LFO2_FREQUENCY == 85
LFO2_DEPTH == 86
scheduleAheadTime == 100
lookahead == 25
StopBuffer == 10
NoReleasePhase == 10
NoteOffOffset == 1

\* null for a voice's midiNote and for a timer handle.
NoNote == -1
NoTimer == -1
\* No voice: find() returned undefined.
NoVoice == 0
\* getVoice raising instead of returning a voice.
Throws == 0
\* The codec variable outside the specification of the note codec.
NoCodec == <<>>

TimeStep == lookahead
MaxTime == MaxTicks * TimeStep

InstrumentIds == {"00", "01"}
Tones == {60, 62, 64}

Min(S) == CHOOSE x \in S : \A y \in S : x <= y
Max2(a, b) == IF a >= b THEN a ELSE b

----------------------------------------------------------------------------
\* Instruments (types.ts Instrument, the fields the engine's control flow reads).

\* An LFO target: a parameter id, or the name of a parameter of LFO 1.
Target(id) == [isNumber |-> TRUE, id |-> id, name |-> ""]
TargetName(name) == [isNumber |-> FALSE, id |-> 0, name |-> name]

\* oscillator.sample: absent, or a record whose buffer is null or a buffer.
NoSample == [present |-> FALSE, buffer |-> "null", loopType |-> "oneshot"]
Sample(buffer, loopType) ==
    [present |-> TRUE, buffer |-> buffer, loopType |-> loopType]

Instrument(vol, mv, osc, att) ==
    [volume |-> vol, pan |-> 0, maxVoices |-> mv,
     lfo1 |-> [depth |-> 0, target |-> Target(VOLUME)],
     lfo2 |-> [depth |-> 0, target |-> Target(VOLUME)],
     oscillator |-> [type |-> osc, sample |-> NoSample],
     envelope |-> [type |-> "adsr", attack |-> att, decay |-> 15,
                   release |-> 15]]

\* The instruments the editor hands to update_instrument.
EditorInstruments ==
    { Instrument(1, mv, "sine", 30) : mv \in 1..MaxVoices }

\* The instruments of an editor that also moves the volume slider, to 0 and
\* back.
VolumeInstruments ==
    { Instrument(vol, mv, "sine", 30) : vol \in {0, 1}, mv \in {1, MaxVoices} }

isTonal(type) == type # "sampler" /\ type # "noise"

----------------------------------------------------------------------------
\* InstrumentNode

\* The field gain is the amplitude the voice's gain envelope is scaled to
\* (velocity * volume): the value of the gain AudioParam is the level of the
\* envelope at the time it is read, times this amplitude.
createVoice ==
    [midiNote |-> NoNote, startTime |-> 0, isActive |-> FALSE,
     oscillator |-> "null", cleanupTimeout |-> NoTimer, gain |-> 0]

\* A pending cleanup timer: the voice its callback closes over, the time it
\* is due, and whether that voice has been dropped from the pool since.
Timer(v, due) == [voice |-> v, due |-> due, detached |-> FALSE]

\* A voice whose pending cleanup is never cancelled.
keepTimeout(node, v) == node

\* clearTimeout(voice.cleanupTimeout)
clearTimeout(node, v) ==
    [node EXCEPT !.timers =
        @ \ {Timer(v, node.voicePool[v].cleanupTimeout)}]

\* The timers pending on voices that were dropped from the pool: the model
\* keeps one timer for all of them, and not the time it is due (its callback
\* writes to a dropped voice only, whenever it runs).
Detached == [voice |-> NoVoice, due |-> 0, detached |-> TRUE]

\* A connection of a depth-gain: to a parameter of a voice of the pool, or
\* (voice NoVoice) to a parameter of the instrument or of LFO 1.
Route(v, param) == [voice |-> v, param |-> param]

\* The old voices are dropped, maxVoices new ones are created.  No timer is
\* cleared: the timers of the old voices stay pending on the dropped voices.
\* The connections of the depth-gains to the dropped voices are of no effect
\* any more; the new voices are connected to neither depth-gain.
initializeVoicePool(node) ==
    [node EXCEPT !.voicePool =
                    [i \in 1..node.instrument.maxVoices |-> createVoice],
                 !.timers = IF @ = {} THEN {} ELSE {Detached},
                 !.lfo1Gain = {r \in @ : r.voice = NoVoice},
                 !.lfo2Gain = {r \in @ : r.voice = NoVoice}]

\* The destinations the switch of routeLFOModulation connects a depth-gain to
\* for a parameter id: a parameter of every voice of the pool (the detune
\* only of voices with an OscillatorNode) or the gain of the instrument.
parameterRoutes(node, id) ==
    LET pool == node.voicePool
    IN  IF id = OSCILLATOR_DETUNE
        THEN {Route(i, "oscillator.detune") :
                i \in {j \in 1..Len(pool) : pool[j].oscillator = "osc"}}
        ELSE IF id = FILTER_FREQUENCY
        THEN {Route(i, "voiceFilter.frequency") : i \in 1..Len(pool)}
        ELSE IF id = FILTER_RESONANCE
        THEN {Route(i, "voiceFilter.Q") : i \in 1..Len(pool)}
        ELSE IF id = VOLUME THEN {Route(NoVoice, "gainNode.gain")}
        ELSE IF id = PAN
        THEN {Route(i, "pan.pan") : i \in 1..Len(pool)}
        ELSE {}

\* The destinations of LFO 2 when its target is a name.
crossRoutes(name) ==
    IF name = "lfo1_frequency" THEN {Route(NoVoice, "lfo1.frequency")}
    ELSE IF name = "lfo1_depth" THEN {Route(NoVoice, "lfo1Gain.gain")}
    ELSE {}

\* LFO 1 routed the way LFO 2 is: a name is looked up too.
routeLFO1AnyTarget(node) ==
    IF node.instrument.lfo1.target.isNumber
    THEN parameterRoutes(node, node.instrument.lfo1.target.id)
    ELSE crossRoutes(node.instrument.lfo1.target.name)

\* The switch over lfo1.target has the parameter ids for cases: a target
\* that is a name matches none of them.
routeLFO1(node) ==
    IF node.instrument.lfo1.target.isNumber
    THEN parameterRoutes(node, node.instrument.lfo1.target.id)
    ELSE {}

routeLFO2(node) ==
    IF node.instrument.lfo2.target.isNumber
    THEN parameterRoutes(node, node.instrument.lfo2.target.id)
    ELSE crossRoutes(node.instrument.lfo2.target.name)

\* getModulationRange(target): a target that is no case of the switch (a
\* name among them) has the range 1.
getModulationRange(target) ==
    IF ~target.isNumber THEN 1
    ELSE IF target.id = OSCILLATOR_DETUNE THEN 1200
    ELSE IF target.id = FILTER_FREQUENCY THEN 10000
    ELSE IF target.id = FILTER_RESONANCE THEN 10
    ELSE 1

\* The value routeLFOModulation leaves in lfo1Gain.gain, in hundredths (the
\* depths are in percent): range * depth, which the case "lfo1_depth" of
\* LFO 2 then overwrites with the depth of LFO 1 alone.
lfo1GainValue(instrument) ==
    IF instrument.lfo2.target = TargetName("lfo1_depth")
    THEN instrument.lfo1.depth
    ELSE getModulationRange(instrument.lfo1.target) * instrument.lfo1.depth

\* The value it leaves in lfo2Gain.gain, in hundredths.
lfo2GainValue(instrument) ==
    IF instrument.lfo2.target.isNumber
    THEN getModulationRange(instrument.lfo2.target) * instrument.lfo2.depth
    ELSE IF instrument.lfo2.target.name = "lfo1_frequency"
    THEN 20 * instrument.lfo2.depth
    ELSE instrument.lfo2.depth

\* Both depth-gains are disconnected from everything, then their gains are
\* set and they are connected anew.
routeLFOModulation(node) ==
    [node EXCEPT !.lfo1Gain = routeLFO1(node), !.lfo2Gain = routeLFO2(node),
                 !.lfo1Depth = lfo1GainValue(node.instrument),
                 !.lfo2Depth = lfo2GainValue(node.instrument)]

\* The constructor: the pool first, then initializeLFOs.
NewInstrumentNode(instrument) ==
    routeLFOModulation(
        initializeVoicePool(
            [instrument |-> instrument, voicePool |-> <<>>,
             sampleBuffer |-> "null", lfo1Gain |-> {}, lfo2Gain |-> {},
             lfo1Depth |-> 0, lfo2Depth |-> 0, timers |-> {}]))

activeVoices(node) ==
    {i \in 1..Len(node.voicePool) : node.voicePool[i].isActive}

releaseTimeOf(instrument) ==
    IF instrument.envelope.type \in {"adsr", "ar"}
    THEN instrument.envelope.release
    ELSE NoReleasePhase

\* A stopVoice that cancels the pending cleanup of a voice released before
\* and arms no new one.
stopVoiceOnce(node, v, time, immediate, t) ==
    LET voice == node.voicePool[v]
        stopTime == time + releaseTimeOf(node.instrument) + StopBuffer
        cleared == clearTimeout(node, v)
    IN  IF ~voice.isActive THEN node
        ELSE IF immediate
        THEN [cleared EXCEPT
                !.lfo1Gain = @ \ {Route(v, "oscillator.detune")},
                !.lfo2Gain = @ \ {Route(v, "oscillator.detune")},
                !.voicePool[v] =
                    [voice EXCEPT !.cleanupTimeout = NoTimer,
                                  !.gain = 0,
                                  !.oscillator = "null",
                                  !.isActive = FALSE,
                                  !.midiNote = NoNote]]
        ELSE IF voice.oscillator # "null" /\ voice.cleanupTimeout = NoTimer
        THEN [cleared EXCEPT
                !.voicePool[v] =
                    [voice EXCEPT !.cleanupTimeout = t + Max2(0, stopTime - t),
                                  !.midiNote = NoNote],
                !.timers = @ \cup {Timer(v, t + Max2(0, stopTime - t))}]
        ELSE [cleared EXCEPT !.voicePool[v] =
                [voice EXCEPT !.cleanupTimeout = NoTimer,
                              !.midiNote = NoNote]]

\* stopVoice(voice, time, immediate), called at audio time t.  A source
\* that is disconnected and dropped takes the connections to its detune
\* with it.
stopVoice(node, v, time, immediate, t) ==
    LET voice == node.voicePool[v]
        stopTime == time + releaseTimeOf(node.instrument) + StopBuffer
        cleared == clearTimeout(node, v)
    IN  IF ~voice.isActive THEN node
        ELSE IF immediate
        THEN [cleared EXCEPT
                !.lfo1Gain = @ \ {Route(v, "oscillator.detune")},
                !.lfo2Gain = @ \ {Route(v, "oscillator.detune")},
                !.voicePool[v] =
                    [voice EXCEPT !.cleanupTimeout = NoTimer,
                                  !.gain = 0,
                                  !.oscillator = "null",
                                  !.isActive = FALSE,
                                  !.midiNote = NoNote]]
        ELSE IF voice.oscillator # "null"
        THEN [cleared EXCEPT
                !.voicePool[v] =
                    [voice EXCEPT !.cleanupTimeout = t + Max2(0, stopTime - t),
                                  !.midiNote = NoNote],
                !.timers = @ \cup {Timer(v, t + Max2(0, stopTime - t))}]
        ELSE [cleared EXCEPT !.voicePool[v] =
                [voice EXCEPT !.cleanupTimeout = NoTimer,
                              !.midiNote = NoNote]]

\* reduceOldest with the comparison of start times reversed.
RECURSIVE reduceNewest(_, _, _, _, _)
reduceNewest(pool, attack, t, k, oldest) ==
    IF k > Len(pool) THEN oldest
    ELSE reduceNewest(pool, attack, t, k + 1,
            IF pool[k].startTime + attack > t THEN oldest
            ELSE IF pool[k].startTime > pool[oldest].startTime THEN k
            ELSE oldest)

\* The reduce of getVoice: no initial value, so it starts from voicePool[0]
\* (index 1 here) and looks at the others in order.
RECURSIVE reduceOldest(_, _, _, _, _)
reduceOldest(pool, attack, t, k, oldest) ==
    IF k > Len(pool) THEN oldest
    ELSE reduceOldest(pool, attack, t, k + 1,
            IF pool[k].startTime + attack > t THEN oldest
            ELSE IF pool[k].startTime < pool[oldest].startTime THEN k
            ELSE oldest)

\* getVoice without the search for a voice that holds the note.
getVoiceNoRetrigger(node, midiNote, t) ==
    LET pool == node.voicePool
        inactive == {i \in 1..Len(pool) : ~pool[i].isActive}
    IN  IF inactive # {} THEN Min(inactive)
        ELSE IF Len(pool) = 0 THEN Throws
        ELSE reduceOldest(pool, node.instrument.envelope.attack, t, 2, 1)

getVoice(node, midiNote, t) ==
    LET pool == node.voicePool
        existing == {i \in 1..Len(pool) : pool[i].midiNote = midiNote}
        inactive == {i \in 1..Len(pool) : ~pool[i].isActive}
    IN  IF existing # {} THEN Min(existing)
        ELSE IF inactive # {} THEN Min(inactive)
        ELSE IF Len(pool) = 0 THEN Throws
        ELSE reduceOldest(pool, node.instrument.envelope.attack, t, 2, 1)

\* createOscillator: the source ("osc" an OscillatorNode, "buf" a buffer
\* source with a buffer, "silent" a buffer source whose buffer is null), the
\* node's sampleBuffer afterwards, and whether it raised.  A sampler without
\* a buffer on the node takes the buffer of the sample record, whatever it
\* is; only without a sample record does it fall back to a sine oscillator.
\* With a looping sample record it reads this.sampleBuffer.length, which
\* raises a TypeError when the buffer is null.
createOscillator(node) ==
    LET oscillator == node.instrument.oscillator
        buffer == IF node.sampleBuffer # "null" THEN node.sampleBuffer
                  ELSE oscillator.sample.buffer
    IN  IF oscillator.type = "noise"
        THEN [source |-> "buf", sampleBuffer |-> node.sampleBuffer,
              threw |-> FALSE]
        ELSE IF oscillator.type = "sampler"
        THEN IF node.sampleBuffer = "null" /\ ~oscillator.sample.present
             THEN [source |-> "osc", sampleBuffer |-> node.sampleBuffer,
                   threw |-> FALSE]
             ELSE [source |-> IF buffer = "null" THEN "silent" ELSE "buf",
                   sampleBuffer |-> buffer,
                   threw |-> /\ oscillator.sample.present
                             /\ oscillator.sample.loopType # "oneshot"
                             /\ buffer = "null"]
        ELSE [source |-> "osc", sampleBuffer |-> node.sampleBuffer,
              threw |-> FALSE]

\* The connections initializeVoice adds for one LFO: to the detune of a newly
\* created OscillatorNode, to the voice's filter.
voiceRoutes(lfo, v, newOscillator) ==
    IF ~lfo.target.isNumber THEN {}
    ELSE (IF lfo.target.id = OSCILLATOR_DETUNE /\ newOscillator = "osc"
          THEN {Route(v, "oscillator.detune")} ELSE {})
         \cup (IF lfo.target.id = FILTER_FREQUENCY
               THEN {Route(v, "voiceFilter.frequency")}
               ELSE IF lfo.target.id = FILTER_RESONANCE
               THEN {Route(v, "voiceFilter.Q")} ELSE {})

\* initializeVoice raises when it has to create a source and createOscillator
\* raises.
initializeVoiceThrows(node, v) ==
    /\ node.voicePool[v].oscillator # "osc"
    /\ createOscillator(node).threw

\* initializeVoice: the pending cleanup is cancelled; a source still on the
\* voice is re-used (and was started before), otherwise a new one is created.
\* When createOscillator raises, the voice is left as it was but for the
\* cancelled cleanup.
initializeVoice(node, v, midiNote, t) ==
    LET voice == node.voicePool[v]
        cleared == [clearTimeout(node, v) EXCEPT
                        !.voicePool[v].cleanupTimeout = NoTimer]
        created == createOscillator(node)
        newOscillator == IF voice.oscillator = "osc" THEN "none"
                         ELSE created.source
    IN  IF voice.oscillator # "osc" /\ created.threw
        THEN [cleared EXCEPT !.sampleBuffer = created.sampleBuffer]
        ELSE [cleared EXCEPT
                !.sampleBuffer = IF voice.oscillator = "osc" THEN @
                                 ELSE created.sampleBuffer,
                !.lfo1Gain = @ \cup voiceRoutes(node.instrument.lfo1, v,
                                                newOscillator),
                !.lfo2Gain = @ \cup voiceRoutes(node.instrument.lfo2, v,
                                                newOscillator),
                !.voicePool[v] =
                    [voice EXCEPT
                        !.cleanupTimeout = NoTimer,
                        !.oscillator = IF voice.oscillator = "osc" THEN "osc"
                                       ELSE created.source,
                        !.midiNote = midiNote,
                        !.startTime = t,
                        !.isActive = TRUE]]

\* applyAmplitudeEnvelope: the ramps of the envelope go to
\* velocityGain = velocity * volume and fractions of it.
applyAmplitudeEnvelope(node, v, velocity) ==
    [node EXCEPT !.voicePool[v].gain = velocity * node.instrument.volume]

\* noteOn(midiNote, velocity, time) at audio time t: the node afterwards, the
\* voice getVoice returned, and whether the call raised (getVoice on an empty
\* pool; createOscillator; start() of a source that was already started).
noteOn(node, midiNote, time, t) ==
    LET v == getVoice(node, midiNote, t)
    IN  IF v = Throws THEN [node |-> node, voice |-> Throws, threw |-> TRUE]
        ELSE LET stopped == IF node.voicePool[v].isActive
                            THEN stopVoice(node, v, time, TRUE, t)
                            ELSE node
             IN IF initializeVoiceThrows(stopped, v)
                THEN [node |-> initializeVoice(stopped, v, midiNote, t),
                      voice |-> v, threw |-> TRUE]
                ELSE [node |-> applyAmplitudeEnvelope(
                            initializeVoice(stopped, v, midiNote, t), v, 1),
                      voice |-> v,
                      threw |-> stopped.voicePool[v].oscillator = "osc"]

\* voicePool.find((v) => v.midiNote === midiNote && v.isActive) of noteOff
findHolder(node, midiNote) ==
    LET found == {i \in 1..Len(node.voicePool) :
                    /\ node.voicePool[i].midiNote = midiNote
                    /\ node.voicePool[i].isActive}
    IN  IF found = {} THEN NoVoice ELSE Min(found)

noteOff(node, midiNote, time, t) ==
    IF findHolder(node, midiNote) = NoVoice THEN node
    ELSE stopVoice(node, findHolder(node, midiNote), time, FALSE, t)

RECURSIVE releaseFrom(_, _, _)
releaseFrom(node, k, t) ==
    IF k > Len(node.voicePool) THEN node
    ELSE releaseFrom(
            IF node.voicePool[k].isActive
            THEN stopVoice(node, k, t, FALSE, t) ELSE node,
            k + 1, t)

releaseAll(node, t) == releaseFrom(node, 1, t)

\* The volume rescaling of updateInstrument divides each active voice's gain by
\* the old volume; with an old volume of 0 the result is not finite and
\* AudioParam.setValueAtTime raises a TypeError.
volumeRescaleThrows(node, oldVolume, instrument) ==
    /\ oldVolume # instrument.volume
    /\ oldVolume = 0
    /\ activeVoices(node) # {}

poolShapeChanged(node, oldMaxVoices, instrument) ==
    \/ oldMaxVoices # instrument.maxVoices
    \/ (Len(node.voicePool) > 0 /\ node.voicePool[1].oscillator = "osc")
         # isTonal(instrument.oscillator.type)

\* scaledGain = (currentGain / oldVolume) * instrument.volume on every active
\* voice, when the volume changed (and the old volume is not 0).
rescaleGains(node, oldVolume, instrument) ==
    IF oldVolume = instrument.volume THEN node
    ELSE [node EXCEPT !.voicePool =
            [i \in 1..Len(node.voicePool) |->
                IF node.voicePool[i].isActive
                THEN [node.voicePool[i] EXCEPT
                        !.gain = (@ \div oldVolume) * instrument.volume]
                ELSE node.voicePool[i]]]

\* The LFOs are routed anew when a target or a depth changed.  (Also when an
\* LFO frequency differs from the value its parameter holds: the instruments
\* of the model all have the frequency the parameters hold.)
lfoChanged(old, instrument) ==
    \/ old.lfo1.target # instrument.lfo1.target
    \/ old.lfo2.target # instrument.lfo2.target
    \/ old.lfo1.depth # instrument.lfo1.depth
    \/ old.lfo2.depth # instrument.lfo2.depth

\* setSampleBuffer(instrument.oscillator.sample.buffer) for a sampler whose
\* sample record has a buffer.
updateSampleBuffer(node, instrument) ==
    IF /\ instrument.oscillator.type = "sampler"
       /\ instrument.oscillator.sample.present
       /\ instrument.oscillator.sample.buffer # "null"
    THEN [node EXCEPT !.sampleBuffer = instrument.oscillator.sample.buffer]
    ELSE node

updateInstrument(node, instrument) ==
    LET oldMaxVoices == node.instrument.maxVoices
        oldVolume == node.instrument.volume
        stored == [node EXCEPT !.instrument = instrument]
        routed == IF lfoChanged(node.instrument, instrument)
                  THEN routeLFOModulation(stored) ELSE stored
    IN  IF volumeRescaleThrows(routed, oldVolume, instrument)
        THEN [node |-> routed, threw |-> TRUE]
        ELSE LET scaled == updateSampleBuffer(
                             rescaleGains(routed, oldVolume, instrument),
                             instrument)
             IN  IF poolShapeChanged(scaled, oldMaxVoices, instrument)
                 THEN [node |-> initializeVoicePool(scaled), threw |-> FALSE]
                 ELSE [node |-> scaled, threw |-> FALSE]

\* A cleanup callback that leaves the stopped source on the voice.
cleanupVoiceKeepsSource(node, v) ==
    [node EXCEPT
      !.voicePool[v] =
        [@ EXCEPT !.cleanupTimeout = NoTimer,
                  !.gain = 0,
                  !.isActive = FALSE,
                  !.midiNote = NoNote]]

\* The callback of a voice's cleanup timer.  It fires after the release ramp
\* of the gain has reached 0.
cleanupVoice(node, v) ==
    [node EXCEPT
      !.lfo1Gain = @ \ {Route(v, "oscillator.detune")},
      !.lfo2Gain = @ \ {Route(v, "oscillator.detune")},
      !.voicePool[v] =
        [@ EXCEPT !.cleanupTimeout = NoTimer,
                  !.gain = 0,
                  !.oscillator = "null",
                  !.isActive = FALSE,
                  !.midiNote = NoNote]]

----------------------------------------------------------------------------
\* Notes, patterns and songs (types.ts Note, Pattern; Project.song).

Note(row, track, instrument, tone, velocity, effect, effectValue) ==
    [row |-> row, track |-> track, instrument |-> instrument, tone |-> tone,
     velocity |-> velocity, effect |-> effect, effectValue |-> effectValue]

Pattern(id, bpm, rows, notes) ==
    [id |-> id, tempo |-> bpm, rows |-> rows, notes |-> notes]

\* null for currentPattern and currentSong.
NoPattern == Pattern("", 0, 0, <<>>)
NoSong == [patterns |-> <<>>, sequence |-> <<>>, set |-> FALSE]

\* Array.prototype.filter
RECURSIVE filterRow(_, _, _)
filterRow(notes, row, k) ==
    IF k > Len(notes) THEN <<>>
    ELSE (IF notes[k].row = row THEN <<notes[k]>> ELSE <<>>)
            \o filterRow(notes, row, k + 1)

\* patterns.find((p) => p.id === patternId): the index of the first one, or 0.
findPattern(patterns, patternId) ==
    LET found == {i \in 1..Len(patterns) : patterns[i].id = patternId}
    IN  IF found = {} THEN 0 ELSE Min(found)

\* The notes of the patterns of one sequence at a row, in the order listed.
RECURSIVE collectNotes(_, _, _, _)
collectNotes(song, sequence, row, k) ==
    IF k > Len(sequence) THEN <<>>
    ELSE LET i == findPattern(song.patterns, sequence[k])
         IN  (IF i = 0 THEN <<>> ELSE filterRow(song.patterns[i].notes, row, 1))
                \o collectNotes(song, sequence, row, k + 1)

----------------------------------------------------------------------------
\* PlaybackScheduler.scheduleNotes

\* normalizeParameterValue.  The number returned is num / den, or, for the
\* LFO frequencies, 0.1 * 200 ^ (num / den).  Every parameter id other than the
\* LFO frequencies and depths falls to the default case: the raw value.
normalizeParameterValue(parameterId, value) ==
    IF parameterId \in {LFO1_FREQUENCY, LFO2_FREQUENCY}
    THEN [scale |-> "exp", num |-> value, den |-> 255]
    ELSE IF parameterId \in {LFO1_DEPTH, LFO2_DEPTH}
    THEN [scale |-> "lin", num |-> value, den |-> 255]
    ELSE [scale |-> "lin", num |-> value, den |-> 1]

\* The switch on the parameter id, on a shallow copy of the instrument: the
\* cases of the global parameters.  The switch has no case for the LFO
\* parameter ids, which leave the copy as it is.  (VOLUME, PAN and MAX_VOICES
\* get a normalized value whose denominator is 1.)
automate(instrument, parameterId, normalizedValue) ==
    IF parameterId = VOLUME
    THEN [instrument EXCEPT !.volume = normalizedValue.num]
    ELSE IF parameterId = PAN
    THEN [instrument EXCEPT !.pan = normalizedValue.num]
    ELSE IF parameterId = MAX_VOICES
    THEN [instrument EXCEPT
            !.maxVoices = normalizedValue.num \div normalizedValue.den]
    ELSE instrument

\* lastNotePerTrack.set(note.track, {instrument, tone}), keeping only the
\* first note of a track.
recordLastNoteOnce(lnpt, note) ==
    IF note.track \in DOMAIN lnpt THEN lnpt
    ELSE [k \in DOMAIN lnpt \cup {note.track} |->
            IF k = note.track
            THEN [instrument |-> note.instrument, tone |-> note.tone]
            ELSE lnpt[k]]

\* lastNotePerTrack.set(note.track, {instrument, tone})
recordLastNote(lnpt, note) ==
    [k \in DOMAIN lnpt \cup {note.track} |->
        IF k = note.track
        THEN [instrument |-> note.instrument, tone |-> note.tone]
        ELSE lnpt[k]]

\* lastNotePerTrack.delete(track)
deleteLastNote(lnpt, track) == [k \in DOMAIN lnpt \ {track} |-> lnpt[k]]

CallOf(op, id, tone, time) == [op |-> op, id |-> id, tone |-> tone, time |-> time]

\* What the dispatch of one note did: the calls it made on instrument nodes
\* and lastNotePerTrack before and after it.
steppedOn(st, pass, note, calls, ins, lnpt, threw, voice) ==
    [instruments |-> ins, lastNotePerTrack |-> lnpt, threw |-> threw,
     steps |-> Append(st.steps,
                 [pass |-> pass, note |-> note, calls |-> calls,
                  voice |-> voice,
                  before |-> st.lastNotePerTrack, after |-> lnpt])]
\* A step that touched no voice.
stepped(st, pass, note, calls, ins, lnpt, threw) ==
    steppedOn(st, pass, note, calls, ins, lnpt, threw, NoVoice)

setNode(ins, id, node) == [i \in DOMAIN ins |-> IF i = id THEN node ELSE ins[i]]

\* A first pass that plays no note of an unknown instrument but records it as
\* the last note of its track.
firstPassRecordsUnknown(st, note, time, t) ==
    IF note.instrument \notin DOMAIN st.instruments
    THEN stepped(st, 1, note, <<>>, st.instruments,
                 IF note.tone # NOTE_OFF_TONE /\ note.effect # PARAM_EFFECT
                 THEN recordLastNote(st.lastNotePerTrack, note)
                 ELSE st.lastNotePerTrack, FALSE)
    ELSE IF note.tone = NOTE_OFF_TONE \/ note.effect = PARAM_EFFECT
    THEN stepped(st, 1, note, <<>>, st.instruments, st.lastNotePerTrack, FALSE)
    ELSE IF note.velocity > 0
    THEN LET r == noteOn(st.instruments[note.instrument], note.tone, time, t)
         IN  steppedOn(st, 1, note,
                     <<CallOf("noteOn", note.instrument, note.tone, time)>>,
                     setNode(st.instruments, note.instrument, r.node),
                     IF r.threw THEN st.lastNotePerTrack
                     ELSE recordLastNote(st.lastNotePerTrack, note),
                     r.threw, r.voice)
    ELSE stepped(st, 1, note, <<>>, st.instruments, st.lastNotePerTrack, FALSE)

\* First pass, one note: note-on events.
firstPass(st, note, time, t) ==
    IF note.instrument \notin DOMAIN st.instruments
    THEN stepped(st, 1, note, <<>>, st.instruments, st.lastNotePerTrack, FALSE)
    ELSE IF note.tone = NOTE_OFF_TONE \/ note.effect = PARAM_EFFECT
    THEN stepped(st, 1, note, <<>>, st.instruments, st.lastNotePerTrack, FALSE)
    ELSE IF note.velocity > 0
    THEN LET r == noteOn(st.instruments[note.instrument], note.tone, time, t)
         IN  steppedOn(st, 1, note,
                     <<CallOf("noteOn", note.instrument, note.tone, time)>>,
                     setNode(st.instruments, note.instrument, r.node),
                     IF r.threw THEN st.lastNotePerTrack
                     ELSE recordLastNote(st.lastNotePerTrack, note),
                     r.threw, r.voice)
    ELSE stepped(st, 1, note, <<>>, st.instruments, st.lastNotePerTrack, FALSE)

\* The note-off branch that releases the track's last note whatever the
\* instrument the sentinel names.
handleNoteOffAnyInstrument(st, note, time, t) ==
    IF note.track \in DOMAIN st.lastNotePerTrack
    THEN LET lastNote == st.lastNotePerTrack[note.track]
         IN  IF lastNote.instrument \in DOMAIN st.instruments
             THEN steppedOn(st, 2, note,
                    <<CallOf("noteOff", lastNote.instrument, lastNote.tone,
                             time + NoteOffOffset)>>,
                    setNode(st.instruments, lastNote.instrument,
                            noteOff(st.instruments[lastNote.instrument],
                                    lastNote.tone, time + NoteOffOffset, t)),
                    deleteLastNote(st.lastNotePerTrack, note.track), FALSE,
                    findHolder(st.instruments[lastNote.instrument],
                               lastNote.tone))
             ELSE stepped(st, 2, note, <<>>, st.instruments,
                          st.lastNotePerTrack, FALSE)
    ELSE stepped(st, 2, note, <<>>, st.instruments, st.lastNotePerTrack, FALSE)

\* Second pass, a note-off sentinel (tone 0x3D).
handleNoteOff(st, note, time, t) ==
    IF /\ note.track \in DOMAIN st.lastNotePerTrack
       /\ st.lastNotePerTrack[note.track].instrument = note.instrument
    THEN LET lastNote == st.lastNotePerTrack[note.track]
         IN  IF lastNote.instrument \in DOMAIN st.instruments
             THEN steppedOn(st, 2, note,
                    <<CallOf("noteOff", lastNote.instrument, lastNote.tone,
                             time + NoteOffOffset)>>,
                    setNode(st.instruments, lastNote.instrument,
                            noteOff(st.instruments[lastNote.instrument],
                                    lastNote.tone, time + NoteOffOffset, t)),
                    deleteLastNote(st.lastNotePerTrack, note.track), FALSE,
                    findHolder(st.instruments[lastNote.instrument],
                               lastNote.tone))
             ELSE stepped(st, 2, note, <<>>, st.instruments,
                          st.lastNotePerTrack, FALSE)
    ELSE stepped(st, 2, note, <<>>, st.instruments, st.lastNotePerTrack, FALSE)

\* Second pass, a parameter control note (effect 0xFF).
handleParameter(st, note, time, t) ==
    LET parameterId == (note.effectValue \div 256) % 256
        parameterValue == note.effectValue % 256
        normalizedValue == normalizeParameterValue(parameterId, parameterValue)
        node == st.instruments[note.instrument]
        r == updateInstrument(node,
                automate(node.instrument, parameterId, normalizedValue))
    IN  stepped(st, 2, note,
                <<CallOf("updateInstrument", note.instrument, parameterId, t)>>,
                setNode(st.instruments, note.instrument, r.node),
                st.lastNotePerTrack, r.threw)

\* Second pass, one note: note-off events and parameter control notes.
secondPass(st, note, time, t) ==
    IF note.instrument \notin DOMAIN st.instruments
    THEN stepped(st, 2, note, <<>>, st.instruments, st.lastNotePerTrack, FALSE)
    ELSE IF note.effect = PARAM_EFFECT THEN handleParameter(st, note, time, t)
    ELSE IF note.tone = NOTE_OFF_TONE THEN handleNoteOff(st, note, time, t)
    ELSE stepped(st, 2, note, <<>>, st.instruments, st.lastNotePerTrack, FALSE)

\* notesToSchedule.forEach for one pass; an exception ends the dispatch.
RECURSIVE forEachNote(_, _, _, _, _, _)
forEachNote(pass, notes, k, st, time, t) ==
    IF k > Len(notes) \/ st.threw THEN st
    ELSE forEachNote(pass, notes, k + 1,
            IF pass = 1 THEN firstPass(st, notes[k], time, t)
            ELSE secondPass(st, notes[k], time, t),
            time, t)

\* A dispatch that handles each note completely before the next one.
RECURSIVE forEachNoteOnePass(_, _, _, _, _)
forEachNoteOnePass(notes, k, st, time, t) ==
    IF k > Len(notes) \/ st.threw THEN st
    ELSE LET first == firstPass(st, notes[k], time, t)
         IN  forEachNoteOnePass(notes, k + 1,
                IF first.threw THEN first
                ELSE secondPass(first, notes[k], time, t),
                time, t)
dispatchOnePass(notes, st, time, t) == forEachNoteOnePass(notes, 1, st, time, t)

\* The two passes over the notes of the row.
dispatch(notes, st, time, t) ==
    forEachNote(2, notes, 1, forEachNote(1, notes, 1, st, time, t), time, t)

\* The notes scheduleNotes finds at the current row.
notesToSchedule ==
    IF currentPattern # NoPattern
    THEN filterRow(currentPattern.notes, currentRow, 1)
    ELSE IF currentSong # NoSong
            /\ currentSequence + 1 \in 1..Len(currentSong.sequence)
    THEN collectNotes(currentSong, currentSong.sequence[currentSequence + 1],
                      currentRow, 1)
    ELSE <<>>

\* In song mode scheduleNotes returns at once when the song has no sequence
\* at currentSequence: nothing is dispatched, no rowChange is emitted.
noSequence ==
    /\ currentPattern = NoPattern
    /\ currentSong # NoSong
    /\ currentSequence + 1 \notin 1..Len(currentSong.sequence)

----------------------------------------------------------------------------
\* PlaybackScheduler.advancePlayback

\* The duration of an eighth note rather than of a sixteenth.
getEighthDuration == 30000 \div tempo

\* The number 60 / 0 / 4 evaluates to; a time that is Infinity stays so.
Infinity == 1000000

\* 60 / tempo / 4 seconds, in ms.
getNoteDuration == IF tempo = 0 THEN Infinity ELSE 15000 \div tempo

\* nextNoteTime += duration.  Times more than MaxRewind before the start of
\* the clock are not told apart.
addTime(time, duration) ==
    IF time = Infinity \/ duration = Infinity THEN Infinity
    ELSE Max2(time + duration, 0 - MaxRewind)

DefaultMaxRows == 16

RECURSIVE maxRowsOf(_, _, _, _)
maxRowsOf(song, sequence, k, maxRows) ==
    IF k > Len(sequence) THEN maxRows
    ELSE LET i == findPattern(song.patterns, sequence[k])
         IN  maxRowsOf(song, sequence, k + 1,
                IF i # 0 /\ song.patterns[i].rows > maxRows
                THEN song.patterns[i].rows ELSE maxRows)

\* The tempo of the first listed pattern of a sequence, or the tempo in force
\* when there is none.
tempoOfSequence(song, index, current) ==
    IF index + 1 \in 1..Len(song.sequence) /\ Len(song.sequence[index + 1]) > 0
    THEN LET i == findPattern(song.patterns, song.sequence[index + 1][1])
         IN  IF i # 0 THEN song.patterns[i].tempo ELSE current
    ELSE current

advancePlayback ==
    /\ nextNoteTime' = addTime(nextNoteTime, getNoteDuration)
    /\ IF currentPattern # NoPattern
       THEN /\ currentRow' = (currentRow + 1) % currentPattern.rows
            /\ UNCHANGED <<currentSequence, tempo>>
       ELSE IF currentSong # NoSong /\ ~noSequence
       THEN LET sequence == currentSong.sequence[currentSequence + 1]
                maxRows == maxRowsOf(currentSong, sequence, 1, DefaultMaxRows)
                row == (currentRow + 1) % maxRows
                next == (currentSequence + 1) % Len(currentSong.sequence)
            IN  /\ currentRow' = row
                /\ IF row = 0
                   THEN /\ currentSequence' = next
                        /\ tempo' = tempoOfSequence(currentSong, next, tempo)
                   ELSE UNCHANGED <<currentSequence, tempo>>
       ELSE UNCHANGED <<currentRow, currentSequence, tempo>>

----------------------------------------------------------------------------
\* The note codec (utils: midiNoteToName, noteNameToMidi, formatNote,
\* parseNoteString).  A string is a sequence of characters.

\* The result of parseInt when the text does not start with a digit.
NaN == -1

NOTE_NAMES == <<"C", "c", "D", "d", "E", "F", "f", "G", "g", "A", "a", "B">>
DecimalDigits == <<"0", "1", "2", "3", "4", "5", "6", "7", "8", "9">>
\* The digits Number.toString(16) writes.
HexDigits == <<"0", "1", "2", "3", "4", "5", "6", "7", "8", "9",
               "a", "b", "c", "d", "e", "f">>

\* Array.indexOf, from 1; 0 when the element is absent.
indexOf(list, x) ==
    IF \E i \in 1..Len(list) : list[i] = x
    THEN Min({i \in 1..Len(list) : list[i] = x})
    ELSE 0

\* String.toUpperCase and toLowerCase on one character.
toUpperCase(ch) ==
    IF ch \in {"a", "b", "c", "d", "e", "f", "g"}
    THEN <<"A", "B", "C", "D", "E", "F", "G">>[
            indexOf(<<"a", "b", "c", "d", "e", "f", "g">>, ch)]
    ELSE ch
toLowerCase(ch) ==
    IF ch \in {"A", "B", "C", "D", "E", "F", "G"}
    THEN <<"a", "b", "c", "d", "e", "f", "g">>[
            indexOf(<<"A", "B", "C", "D", "E", "F", "G">>, ch)]
    ELSE ch
upper(str) == [i \in 1..Len(str) |-> toUpperCase(str[i])]

\* Number.toString(16) of a natural number.
RECURSIVE toString16(_)
toString16(n) ==
    IF n < 16 THEN <<HexDigits[n + 1]>>
    ELSE toString16(n \div 16) \o <<HexDigits[(n % 16) + 1]>>

\* The decimal text of an octave (-1..9), as the template string writes it.
toDecimal(n) ==
    IF n < 0 THEN <<"-", DecimalDigits[-n + 1]>> ELSE <<DecimalDigits[n + 1]>>

RECURSIVE padStart(_, _, _)
padStart(str, length, ch) ==
    IF Len(str) >= length THEN str ELSE padStart(<<ch>> \o str, length, ch)

substring(str, from, to) ==
    SubSeq(str, from + 1, IF to > Len(str) THEN Len(str) ELSE to)

\* The value of a hexadecimal digit of either case, or NaN.
hexValue(ch) ==
    IF indexOf(HexDigits, toLowerCase(ch)) = 0 THEN NaN
    ELSE indexOf(HexDigits, toLowerCase(ch)) - 1

\* parseInt(str, 16) of a text without sign, blank or 0x prefix: the value of
\* its longest prefix of hexadecimal digits, NaN when that is empty.
RECURSIVE parseDigits16(_, _, _)
parseDigits16(str, k, acc) ==
    IF k > Len(str) \/ hexValue(str[k]) = NaN THEN acc
    ELSE parseDigits16(str, k + 1,
            (IF acc = NaN THEN 0 ELSE acc) * 16 + hexValue(str[k]))
parseInt16(str) == parseDigits16(str, 1, NaN)

\* parseInt(ch) of one character: the digit, or NaN.
parseInt10(ch) ==
    IF indexOf(DecimalDigits, ch) = 0 THEN NaN
    ELSE indexOf(DecimalDigits, ch) - 1

midiNoteToName(note) ==
    IF note = NOTE_OFF_TONE THEN <<"=", "0">>
    ELSE <<NOTE_NAMES[(note % 12) + 1]>> \o toDecimal((note \div 12) - 1)

\* noteName.replace(/([a-g])/, ...): the first lower-case letter a..g stays
\* when it is a sharp of the table (c, d, f, g, a) and becomes upper-case
\* otherwise (e, b).
replaceFirstLower(str) ==
    LET at == {i \in 1..Len(str) :
                 str[i] \in {"a", "b", "c", "d", "e", "f", "g"}}
    IN  IF at = {} THEN str
        ELSE [str EXCEPT ![Min(at)] =
                IF @ \in {"c", "d", "f", "g", "a"} THEN @ ELSE toUpperCase(@)]

\* noteNameToMidi: [ok |-> FALSE] when it throws "Invalid note name".
noteNameToMidi(noteName) ==
    IF Len(noteName) > 0 /\ noteName[1] = "="
    THEN [ok |-> TRUE, tone |-> NOTE_OFF_TONE]
    ELSE LET normalized == replaceFirstLower(noteName)
             note == SubSeq(normalized, 1, Len(normalized) - 1)
             octave == IF Len(normalized) = 0 THEN NaN
                       ELSE parseInt10(normalized[Len(normalized)])
             noteIndex == IF Len(note) = 1 THEN indexOf(NOTE_NAMES, note[1])
                          ELSE 0
         IN  IF noteIndex = 0 THEN [ok |-> FALSE, tone |-> NaN]
             ELSE [ok |-> TRUE,
                   tone |-> IF octave = NaN THEN NaN
                            ELSE (octave + 1) * 12 + noteIndex - 1]

CodecNote(instrument, velocity, tone, effect, effectValue) ==
    [instrument |-> instrument, velocity |-> velocity, tone |-> tone,
     effect |-> effect, effectValue |-> effectValue]

formatNote(note) ==
    note.instrument
    \o upper(padStart(toString16(note.velocity), 2, "0"))
    \o midiNoteToName(note.tone)
    \o upper(padStart(toString16(note.effect), 2, "0"))
    \o upper(padStart(toString16(note.effectValue), 4, "0"))

\* parseNoteString of a text without blanks at its ends (trim changes
\* nothing): [ok |-> FALSE] when it throws.
parseNoteString(noteStr) ==
    LET failed == [ok |-> FALSE, note |-> CodecNote(<<>>, NaN, NaN, NaN, NaN)]
        remainingStr == substring(noteStr, 6, Len(noteStr))
        name == noteNameToMidi(substring(noteStr, 4, 6))
    IN  IF Len(noteStr) < 4 THEN failed
        ELSE IF ~name.ok THEN failed
        ELSE [ok |-> TRUE,
              note |-> CodecNote(
                substring(noteStr, 0, 2),
                parseInt16(substring(noteStr, 2, 4)),
                name.tone,
                IF Len(remainingStr) >= 2
                THEN parseInt16(substring(remainingStr, 0, 2)) ELSE 0,
                IF Len(remainingStr) >= 6
                THEN parseInt16(substring(remainingStr, 2, 6)) ELSE 0)]

----------------------------------------------------------------------------
\* Operations on the engine and on one instrument node.

\* The call the last step made into the instrument nodes (an update, a note,
\* a release, the dispatch of a row, stop()): the operation, the node and note
\* it was given, whether it raised, and (for noteOn) whether a voice held the
\* note, whether a voice was idle and whether the voice getVoice returns had a
\* cleanup timer pending when it was called.  NoCall after a step
\* that made none (the clock, a timer, setPattern, setSong, play).
NoCall == [op |-> "none", id |-> "", midiNote |-> NoNote, held |-> FALSE,
           idle |-> FALSE, pending |-> FALSE, threw |-> FALSE]
Called(op, id, threw) == [NoCall EXCEPT !.op = op, !.id = id, !.threw = threw]
CalledNoteOn(id, midiNote, node, threw) ==
    [op |-> "noteOn", id |-> id, midiNote |-> midiNote,
     held |-> \E i \in 1..Len(node.voicePool) :
                 node.voicePool[i].midiNote = midiNote,
     idle |-> \E i \in 1..Len(node.voicePool) : ~node.voicePool[i].isActive,
     pending |-> \E tm \in node.timers :
                    ~tm.detached /\ tm.voice = getVoice(node, midiNote, now),
     threw |-> threw]

withNode(id, node) ==
    [i \in DOMAIN instruments \cup {id} |->
        IF i = id THEN node ELSE instruments[i]]

\* null for masterGain, before initAudioContext created it.
NoGain == -1
\* masterGain.gain.value = 0.75
DefaultGain == 75

\* initAudioContext(): the context, the master gain and the scheduler are
\* created by the first call; a later call only resumes the context.
InitAudioContext ==
    /\ pc = "idle"
    /\ audio' = TRUE
    /\ masterGain' = IF audio THEN masterGain ELSE DefaultGain
    /\ events' = <<>>
    /\ call' = NoCall
    /\ UNCHANGED <<now, instruments, schedVars, samples, codec, loads>>

\* A call of the engine before initAudioContext(): updateInstrument,
\* loadProject and setVolume return at their first line, the playback
\* methods call this.scheduler?.method() on the scheduler that is still null.
Ignored(op) ==
    /\ pc = "idle"
    /\ ~audio
    /\ call' = Called(op, "", FALSE)
    /\ events' = <<>>
    /\ UNCHANGED <<now, instruments, schedVars, engineVars>>

\* AudioEngine.updateInstrument(id, instrument)
EngineUpdateInstrument(id, instrument) ==
    \/ Ignored("updateInstrument")
    \/ /\ pc = "idle"
       /\ audio
       /\ events' = <<>>
       /\ UNCHANGED engineVars
       /\ IF id \notin DOMAIN instruments
          THEN /\ instruments' = withNode(id, NewInstrumentNode(instrument))
               /\ call' = Called("createInstrument", id, FALSE)
          ELSE LET r == updateInstrument(instruments[id], instrument)
               IN  /\ instruments' = withNode(id, r.node)
                   /\ call' = Called("updateInstrument", id, r.threw)
       /\ UNCHANGED <<now, schedVars>>

\* InstrumentNode.noteOn(midiNote, 1.0, time), as the keyboard calls it.
NodeNoteOn(id, midiNote, time) ==
    /\ pc = "idle"
    /\ events' = <<>>
    /\ UNCHANGED engineVars
    /\ id \in DOMAIN instruments
    /\ LET r == noteOn(instruments[id], midiNote, time, now)
       IN  /\ instruments' = withNode(id, r.node)
           /\ call' = CalledNoteOn(id, midiNote, instruments[id], r.threw)
    /\ UNCHANGED <<now, schedVars>>

\* InstrumentNode.noteOff(midiNote, time)
NodeNoteOff(id, midiNote, time) ==
    /\ pc = "idle"
    /\ events' = <<>>
    /\ UNCHANGED engineVars
    /\ id \in DOMAIN instruments
    /\ instruments' = withNode(id, noteOff(instruments[id], midiNote, time, now))
    /\ call' = [Called("noteOff", id, FALSE) EXCEPT !.midiNote = midiNote]
    /\ UNCHANGED <<now, schedVars>>

\* InstrumentNode.releaseAll()
NodeReleaseAll(id) ==
    /\ pc = "idle"
    /\ events' = <<>>
    /\ UNCHANGED engineVars
    /\ id \in DOMAIN instruments
    /\ instruments' = withNode(id, releaseAll(instruments[id], now))
    /\ call' = Called("releaseAll", id, FALSE)
    /\ UNCHANGED <<now, schedVars>>

\* A voice's cleanup timer fires, not before its delay has passed.
CleanupFire(id, v) ==
    /\ pc = "idle"
    /\ events' = <<>>
    /\ UNCHANGED engineVars
    /\ id \in DOMAIN instruments
    /\ v \in 1..Len(instruments[id].voicePool)
    /\ \E tm \in instruments[id].timers :
        /\ tm.voice = v
        /\ ~tm.detached
        /\ tm.due <= now
        /\ instruments' = withNode(id,
                [cleanupVoice(instruments[id], v) EXCEPT !.timers = @ \ {tm}])
    /\ call' = NoCall
    /\ UNCHANGED <<now, schedVars>>

\* The cleanup timer of a voice that initializeVoicePool dropped fires: its
\* callback writes to the dropped voice, no voice of the pool is touched.
DetachedCleanupFire(id) ==
    /\ pc = "idle"
    /\ events' = <<>>
    /\ UNCHANGED engineVars
    /\ id \in DOMAIN instruments
    /\ \E tm \in instruments[id].timers :
        /\ tm.detached
        /\ tm.due <= now
        /\ instruments' = withNode(id,
                [instruments[id] EXCEPT !.timers = @ \ {tm}])
    /\ call' = NoCall
    /\ UNCHANGED <<now, schedVars>>

\* The audio clock advances.
AdvanceTime ==
    /\ pc = "idle"
    /\ events' = <<>>
    /\ UNCHANGED engineVars
    /\ now + TimeStep <= MaxTime
    /\ now' = now + TimeStep
    /\ call' = NoCall
    /\ UNCHANGED <<instruments, schedVars>>

----------------------------------------------------------------------------
\* Operations of the playback scheduler.  A scheduler pass (the while loop of
\* scheduler()) runs to completion: pc = "loop" from its start to the arming
\* of the wake-up timer, and nothing else runs meanwhile.

\* rowTrace: the row scheduleNotes dispatched last in this playback (its
\* index, its note time, the tempo and the pattern in force, the steps of
\* the two passes, whether rowChange was emitted) and the row before it.
NoPrev == [valid |-> FALSE, row |-> 0, time |-> 0, tempo |-> 0, pattern |-> ""]
NoRow == [row |-> 0, time |-> 0, tempo |-> 0, pattern |-> "", steps |-> <<>>,
          emitted |-> FALSE, dispatched |-> FALSE, prev |-> NoPrev]
prevOf(trace) ==
    IF trace.dispatched
    THEN [valid |-> TRUE, row |-> trace.row, time |-> trace.time,
          tempo |-> trace.tempo, pattern |-> trace.pattern]
    ELSE NoPrev

\* setPattern(pattern)
SetPattern(pattern) ==
    \/ Ignored("setPattern")
    \/ /\ pc = "idle"
       /\ audio
       /\ events' = <<>>
       /\ UNCHANGED <<engineVars, loading>>
       /\ currentPattern' = pattern
       /\ currentSong' = NoSong
       /\ tempo' = pattern.tempo
       /\ call' = NoCall
       /\ UNCHANGED <<now, instruments, pc, isPlaying, currentRow, currentSequence,
                      nextNoteTime, timerID, lastNotePerTrack, rowTrace>>

\* setSong(songSequence, patterns)
SetSong(songSequence, patterns) ==
    \/ Ignored("setSong")
    \/ /\ pc = "idle"
       /\ audio
       /\ events' = <<>>
       /\ UNCHANGED <<engineVars, loading>>
       /\ currentSong' = [patterns |-> patterns, sequence |-> songSequence,
                          set |-> TRUE]
       /\ currentPattern' = NoPattern
       /\ currentSequence' = 0
       /\ tempo' = tempoOfSequence(currentSong', 0, tempo)
       /\ call' = NoCall
       /\ UNCHANGED <<now, instruments, pc, isPlaying, currentRow, nextNoteTime,
                      timerID, lastNotePerTrack, rowTrace>>

\* A play() without the test of isPlaying.
PlayAgain ==
    \/ Ignored("play")
    \/ /\ pc = "idle"
       /\ audio
       /\ call' = NoCall
       /\ UNCHANGED <<engineVars, loading>>
       /\ IF currentPattern = NoPattern /\ currentSong = NoSong
          THEN /\ events' = <<>>
               /\ UNCHANGED <<pc, isPlaying, currentRow, currentSequence,
                              nextNoteTime, rowTrace>>
          ELSE /\ events' = <<"playStart">>
               /\ isPlaying' = TRUE
               /\ currentRow' = 0
               /\ currentSequence' = 0
               /\ nextNoteTime' = now
               /\ rowTrace' = NoRow
               /\ pc' = "loop"
       /\ UNCHANGED <<now, instruments, currentPattern, currentSong, tempo,
                      timerID, lastNotePerTrack>>

\* play(), up to its call of scheduler().
Play ==
    \/ Ignored("play")
    \/ /\ pc = "idle"
       /\ audio
       /\ call' = NoCall
       /\ UNCHANGED <<engineVars, loading>>
       /\ IF isPlaying \/ (currentPattern = NoPattern /\ currentSong = NoSong)
          THEN /\ events' = <<>>
               /\ UNCHANGED <<pc, isPlaying, currentRow, currentSequence,
                              nextNoteTime, rowTrace>>
          ELSE /\ events' = <<"playStart">>
               /\ isPlaying' = TRUE
               /\ currentRow' = 0
               /\ currentSequence' = 0
               /\ nextNoteTime' = now
               /\ rowTrace' = NoRow
               /\ pc' = "loop"
       /\ UNCHANGED <<now, instruments, currentPattern, currentSong, tempo,
                      timerID, lastNotePerTrack>>

RECURSIVE releaseAllNodes(_, _, _)
releaseAllNodes(ins, ids, t) ==
    IF ids = {} THEN ins
    ELSE LET id == CHOOSE i \in ids : TRUE
         IN  releaseAllNodes(setNode(ins, id, releaseAll(ins[id], t)),
                             ids \ {id}, t)

\* stop()
Stop ==
    \/ Ignored("stop")
    \/ /\ pc = "idle"
       /\ audio
       /\ call' = Called("stop", "", FALSE)
       /\ UNCHANGED <<engineVars, loading>>
       /\ IF ~isPlaying
          THEN /\ events' = <<>>
               /\ UNCHANGED <<isPlaying, timerID, instruments, lastNotePerTrack,
                              rowTrace>>
          ELSE /\ events' = <<"playStop">>
               /\ isPlaying' = FALSE
               /\ timerID' = NoTimer
               /\ instruments' = releaseAllNodes(instruments, DOMAIN instruments, now)
               /\ lastNotePerTrack' = [i \in {} |-> 0]
               /\ rowTrace' = NoRow
       /\ UNCHANGED <<now, pc, currentPattern, currentSong, currentRow,
                      currentSequence, nextNoteTime, tempo>>

\* seek(row)
Seek(row) ==
    \/ Ignored("seek")
    \/ /\ pc = "idle"
       /\ audio
       /\ currentRow' = row
       /\ call' = Called("seek", "", FALSE)
       /\ events' = <<>>
       /\ UNCHANGED <<now, instruments, engineVars, pc, currentPattern,
                      currentSong, isPlaying, currentSequence, nextNoteTime,
                      tempo, timerID, lastNotePerTrack, rowTrace, loading>>

\* updatePattern that looks at the pattern being played only, not at the
\* patterns of the song.
updatePatternOfPatternMode(pattern) ==
    IF currentPattern # NoPattern /\ currentPattern.id = pattern.id
    THEN [currentPattern |-> pattern, currentSong |-> currentSong,
          tempo |-> pattern.tempo]
    ELSE [currentPattern |-> currentPattern, currentSong |-> currentSong,
          tempo |-> tempo]

\* PlaybackScheduler.updatePattern(pattern): what it leaves in currentPattern,
\* currentSong and tempo.  In song mode the first pattern of the song with
\* the id is replaced, and the tempo follows only when the pattern is the
\* first one listed in the current sequence.
updatePattern(pattern) ==
    IF currentPattern # NoPattern /\ currentPattern.id = pattern.id
    THEN [currentPattern |-> pattern, currentSong |-> currentSong,
          tempo |-> pattern.tempo]
    ELSE IF currentSong # NoSong
            /\ findPattern(currentSong.patterns, pattern.id) # 0
    THEN [currentPattern |-> currentPattern,
          currentSong |->
            [currentSong EXCEPT
                !.patterns[findPattern(currentSong.patterns, pattern.id)] =
                    pattern],
          tempo |->
            IF /\ currentSequence + 1 \in 1..Len(currentSong.sequence)
               /\ Len(currentSong.sequence[currentSequence + 1]) > 0
               /\ currentSong.sequence[currentSequence + 1][1] = pattern.id
            THEN pattern.tempo ELSE tempo]
    ELSE [currentPattern |-> currentPattern, currentSong |-> currentSong,
          tempo |-> tempo]

\* AudioEngine.updatePattern(pattern)
UpdatePattern(pattern) ==
    \/ Ignored("updatePattern")
    \/ /\ pc = "idle"
       /\ audio
       /\ currentPattern' = updatePattern(pattern).currentPattern
       /\ currentSong' = updatePattern(pattern).currentSong
       /\ tempo' = updatePattern(pattern).tempo
       /\ call' = Called("updatePattern", pattern.id, FALSE)
       /\ events' = <<>>
       /\ UNCHANGED <<now, instruments, engineVars, pc, isPlaying, currentRow,
                      currentSequence, nextNoteTime, timerID, lastNotePerTrack,
                      rowTrace, loading>>

\* setVolume(volume), in percent
SetVolume(volume) ==
    \/ Ignored("setVolume")
    \/ /\ pc = "idle"
       /\ audio
       /\ masterGain' = volume
       /\ call' = Called("setVolume", "", FALSE)
       /\ events' = <<>>
       /\ UNCHANGED <<now, instruments, schedVars, audio, samples, codec, loads>>

\* loadSample(instrumentId, file), from the point where file.arrayBuffer()
\* has resolved.  Before initAudioContext() this.audioContext is null and
\* this.audioContext!.decodeAudioData raises a TypeError, which the catch
\* block logs and throws again: the promise of loadSample is rejected.
\* Otherwise the buffer is stored and, when the instrument has a node, set
\* on the node; the sample record of a sampler gets the buffer (a record
\* with the defaults is created when there is none) and the node is updated
\* with its own instrument.
LoadSample(id) ==
    /\ pc = "idle"
    /\ IF ~audio
       THEN /\ call' = Called("loadSample", id, TRUE)
            /\ events' = <<>>
            /\ UNCHANGED <<instruments, samples>>
       ELSE /\ samples' = samples \cup {id}
            /\ call' = Called("loadSample", id, FALSE)
            /\ events' = <<"sampleLoaded">>
            /\ IF id \notin DOMAIN instruments
               THEN UNCHANGED instruments
               ELSE LET node == [instruments[id] EXCEPT !.sampleBuffer = "buf"]
                        sample == node.instrument.oscillator.sample
                        instrument ==
                            [node.instrument EXCEPT !.oscillator.sample =
                                Sample("buf", IF sample.present
                                              THEN sample.loopType
                                              ELSE "oneshot")]
                    IN  instruments' = withNode(id,
                            IF node.instrument.oscillator.type = "sampler"
                            THEN updateInstrument(
                                    [node EXCEPT !.instrument = instrument],
                                    instrument).node
                            ELSE node)
    /\ UNCHANGED <<now, schedVars, audio, masterGain, codec, loads>>

\* A project: its instruments in order, each with its id, and the ids its
\* sampleData has an encoded sample for.
Project(name, entries, sampleData) ==
    [name |-> name, instruments |-> entries, sampleData |-> sampleData]
Entry(id, instrument) == [id |-> id, instrument |-> instrument]

isBareSampler(entry) ==
    /\ entry.instrument.oscillator.type = "sampler"
    /\ ~entry.instrument.oscillator.sample.present

\* The index of the first sampler of the project that has no sample record
\* (instrument.oscillator.sample!.buffer = ... raises a TypeError there), or
\* 0 when every sampler has one.
firstBareSampler(project) ==
    LET bare == {k \in 1..Len(project.instruments) :
                    isBareSampler(project.instruments[k])}
    IN  IF bare = {} THEN 0 ELSE Min(bare)

\* The node loadProject creates for the k-th instrument of the project: a
\* new InstrumentNode, with the decoded buffer when the instrument is a
\* sampler that has one in the sample store (the ids in store); the last loop of loadProject
\* then writes the node's buffer into the sample record, up to the
\* instrument it fails at.
projectNodeFrom(store, project, k) ==
    LET entry == project.instruments[k]
        node == NewInstrumentNode(entry.instrument)
        sampler == entry.instrument.oscillator.type = "sampler"
        buffered == IF sampler /\ entry.id \in store
                    THEN [node EXCEPT !.sampleBuffer = "buf"] ELSE node
        written == firstBareSampler(project) = 0
                        \/ k < firstBareSampler(project)
    IN  IF sampler /\ written
        THEN [buffered EXCEPT !.instrument.oscillator.sample.buffer =
                                    buffered.sampleBuffer]
        ELSE buffered

\* With the sample store holding the project's own samples, as it does when
\* no other load ran between the decoding and the creation of the nodes.
projectNode(project, k) == projectNodeFrom(project.sampleData, project, k)

\* The registry after loadProject: the map is cleared and gets the new nodes
\* (of two instruments with one id, the later one).
projectNodesFrom(store, project) ==
    LET entries == project.instruments
        ids == {entries[k].id : k \in 1..Len(entries)}
    IN  [id \in ids |->
            projectNodeFrom(store, project,
                CHOOSE k \in 1..Len(entries) :
                    /\ entries[k].id = id
                    /\ \A j \in 1..Len(entries) :
                            entries[j].id = id => j <= k)]

projectNodes(project) == projectNodesFrom(project.sampleData, project)

\* One sampleLoaded per encoded sample that loadSampleData decoded.
RECURSIVE sampleLoadedEvents(_)
sampleLoadedEvents(ids) ==
    IF ids = {} THEN <<>>
    ELSE <<"sampleLoaded">>
            \o sampleLoadedEvents(ids \ {CHOOSE id \in ids : TRUE})

\* loadProject(project), up to the scheduler() call of the play() that
\* restarts playback (its awaits resolve without leaving the task).  A
\* sampler without a sample record makes the last loop raise after the
\* registry was replaced: playback is not restarted and projectLoaded is
\* not emitted.
LoadProject(project) ==
    \/ Ignored("loadProject")
    \/ /\ pc = "idle"
       /\ audio
       /\ samples' = project.sampleData
       /\ instruments' = projectNodes(project)
       /\ call' = Called("loadProject", project.name,
                         firstBareSampler(project) # 0)
       /\ IF isPlaying
          THEN /\ timerID' = NoTimer
               /\ lastNotePerTrack' = [i \in {} |-> 0]
               /\ rowTrace' = NoRow
          ELSE UNCHANGED <<timerID, lastNotePerTrack, rowTrace>>
       /\ IF firstBareSampler(project) # 0
          THEN /\ isPlaying' = FALSE
               /\ events' = (IF isPlaying THEN <<"playStop">> ELSE <<>>)
                                \o sampleLoadedEvents(project.sampleData)
               /\ UNCHANGED <<pc, currentRow, currentSequence, nextNoteTime,
                              loading>>
          ELSE IF isPlaying
          THEN /\ isPlaying' = TRUE
               /\ currentRow' = 0
               /\ currentSequence' = 0
               /\ nextNoteTime' = now
               /\ pc' = "loop"
               /\ loading' = TRUE
               /\ events' = <<"playStop">>
                                \o sampleLoadedEvents(project.sampleData)
                                \o <<"playStart">>
          ELSE /\ events' = sampleLoadedEvents(project.sampleData)
                                \o <<"projectLoaded">>
               /\ UNCHANGED <<pc, isPlaying, currentRow, currentSequence,
                              nextNoteTime, loading>>
       /\ UNCHANGED <<now, currentPattern, currentSong, tempo, audio,
                      masterGain, codec, loads>>

\* loadProject(project) up to its await: playback is stopped, the sample
\* store is cleared, and the call waits for loadSampleData, whose every
\* decoded sample and whose return take one turn of the microtask queue.
\* A caller that does not await the promise can call loadProject again in
\* the same task, before any continuation has run.
Load(project, latest) ==
    [project |-> project, remaining |-> project.sampleData,
     wasPlaying |-> isPlaying, ticks |-> 0, overlapped |-> loads # <<>>,
     latest |-> latest]

LoadProjectBegin(project) ==
    \/ Ignored("loadProject")
    \/ /\ pc = "idle"
       /\ audio
       /\ Len(loads) < MaxLoads
       /\ \A k \in 1..Len(loads) : loads[k].ticks = 0
       /\ IF isPlaying
          THEN /\ events' = <<"playStop">>
               /\ isPlaying' = FALSE
               /\ timerID' = NoTimer
               /\ instruments' =
                    releaseAllNodes(instruments, DOMAIN instruments, now)
               /\ lastNotePerTrack' = [i \in {} |-> 0]
               /\ rowTrace' = NoRow
          ELSE /\ events' = <<>>
               /\ UNCHANGED <<isPlaying, timerID, instruments,
                              lastNotePerTrack, rowTrace>>
       /\ samples' = {}
       /\ loads' = Append(
                [k \in 1..Len(loads) |->
                    [loads[k] EXCEPT !.overlapped = TRUE,
                                     !.latest = project.name]],
                Load(project, project.name))
       /\ call' = NoCall
       /\ UNCHANGED <<now, pc, currentPattern, currentSong, currentRow,
                      currentSequence, nextNoteTime, tempo, audio, masterGain,
                      codec, loading>>

\* The continuation of loadSampleData after one await: the decoded sample
\* goes into the store and into the node registered under its id.
sampleRestored(id) ==
    IF id \notin DOMAIN instruments THEN instruments
    ELSE LET node == [instruments[id] EXCEPT !.sampleBuffer = "buf"]
             oscillator == node.instrument.oscillator
             instrument == [node.instrument EXCEPT
                                !.oscillator.sample.buffer = "buf"]
         IN  withNode(id,
                IF oscillator.type = "sampler" /\ oscillator.sample.present
                THEN updateInstrument([node EXCEPT !.instrument = instrument],
                                      instrument).node
                ELSE node)

\* The continuation at the head of the microtask queue runs: the next sample
\* of a load, or, the samples done, the rest of loadProject (the registry is
\* replaced by new nodes that take their buffers from the sample store,
\* playback is restarted up to the scheduler() call of play()).
LoadProjectTick ==
    /\ pc = "idle"
    /\ loads # <<>>
    /\ UNCHANGED <<now, currentPattern, currentSong, tempo, timerID,
                   lastNotePerTrack, audio, masterGain, codec>>
    /\ LET load == loads[1]
           id == CHOOSE i \in load.remaining : TRUE
           threw == firstBareSampler(load.project) # 0
           restart == /\ load.wasPlaying
                      /\ ~threw
                      /\ ~isPlaying
                      /\ ~(currentPattern = NoPattern /\ currentSong = NoSong)
       IN  IF load.remaining # {}
           THEN /\ samples' = samples \cup {id}
                /\ instruments' = sampleRestored(id)
                /\ events' = <<"sampleLoaded">>
                /\ call' = Called("loadSampleData", id, FALSE)
                /\ loads' = Append(Tail(loads),
                        [load EXCEPT !.remaining = @ \ {id},
                                     !.ticks = @ + 1])
                /\ UNCHANGED <<pc, isPlaying, currentRow, currentSequence,
                               nextNoteTime, rowTrace, loading>>
           ELSE /\ instruments' = projectNodesFrom(samples, load.project)
                /\ call' = Called("loadProject", load.project.name, threw)
                /\ loads' = Tail(loads)
                /\ UNCHANGED samples
                /\ IF restart
                   THEN /\ events' = <<"playStart">>
                        /\ isPlaying' = TRUE
                        /\ currentRow' = 0
                        /\ currentSequence' = 0
                        /\ nextNoteTime' = now
                        /\ rowTrace' = NoRow
                        /\ pc' = "loop"
                        /\ loading' = TRUE
                   ELSE /\ events' = IF threw THEN <<>>
                                     ELSE <<"projectLoaded">>
                        /\ UNCHANGED <<pc, isPlaying, currentRow,
                                       currentSequence, nextNoteTime,
                                       rowTrace, loading>>

\* The wake-up timer fires, not before its delay has passed: scheduler() starts.
SchedulerWake ==
    /\ pc = "idle"
    /\ events' = <<>>
    /\ UNCHANGED <<engineVars, loading>>
    /\ timerID # NoTimer
    /\ timerID <= now
    /\ timerID' = NoTimer
    /\ pc' = IF isPlaying THEN "loop" ELSE "idle"
    /\ call' = NoCall
    /\ UNCHANGED <<now, instruments, currentPattern, currentSong, isPlaying,
                   currentRow, currentSequence, nextNoteTime, tempo,
                   lastNotePerTrack, rowTrace>>

\* One turn of the while loop: scheduleNotes() then advancePlayback().  An
\* exception raised by the dispatch leaves scheduler() before advancePlayback
\* and before the wake-up timer is armed; when loadProject called this play(),
\* the exception rejects the promise of play() and loadProject goes on to
\* emit projectLoaded.
SchedulerRow ==
    /\ pc = "loop"
    /\ nextNoteTime < now + scheduleAheadTime
    /\ UNCHANGED engineVars
    /\ IF noSequence
       THEN /\ events' = <<>>
            /\ rowTrace' = [NoRow EXCEPT !.row = currentRow,
                                         !.time = nextNoteTime,
                                         !.tempo = tempo]
            /\ call' = Called("scheduleNotes", "", FALSE)
            /\ advancePlayback
            /\ UNCHANGED <<instruments, lastNotePerTrack, pc, loading>>
       ELSE LET st == dispatch(notesToSchedule,
                        [instruments |-> instruments,
                         lastNotePerTrack |-> lastNotePerTrack,
                         steps |-> <<>>, threw |-> FALSE],
                        nextNoteTime, now)
            IN  /\ instruments' = st.instruments
                /\ lastNotePerTrack' = st.lastNotePerTrack
                /\ events' = IF ~st.threw THEN <<"rowChange">>
                             ELSE IF loading THEN <<"projectLoaded">>
                             ELSE <<>>
                /\ loading' = (loading /\ ~st.threw)
                /\ rowTrace' = [row |-> currentRow, time |-> nextNoteTime,
                                tempo |-> tempo, pattern |-> currentPattern.id,
                                steps |-> st.steps, emitted |-> ~st.threw,
                                dispatched |-> TRUE, prev |-> prevOf(rowTrace)]
                /\ call' = Called("scheduleNotes", "", st.threw)
                /\ IF st.threw
                   THEN /\ pc' = "idle"
                        /\ UNCHANGED <<currentRow, currentSequence,
                                       nextNoteTime, tempo>>
                   ELSE /\ advancePlayback
                        /\ pc' = "loop"
    /\ UNCHANGED <<now, currentPattern, currentSong, isPlaying, timerID>>

\* The loop is over: window.setTimeout(() => this.scheduler(), lookahead).
\* When loadProject called this play(), it goes on to emit projectLoaded.
SchedulerArm ==
    /\ pc = "loop"
    /\ events' = IF loading THEN <<"projectLoaded">> ELSE <<>>
    /\ loading' = FALSE
    /\ UNCHANGED engineVars
    /\ ~(nextNoteTime < now + scheduleAheadTime)
    /\ timerID' = now + lookahead
    /\ pc' = "idle"
    /\ call' = NoCall
    /\ UNCHANGED <<now, instruments, currentPattern, currentSong, isPlaying,
                   currentRow, currentSequence, nextNoteTime, tempo,
                   lastNotePerTrack, rowTrace>>

----------------------------------------------------------------------------

\* The engine and its scheduler as their constructors leave them.
EngineInit ==
    /\ now = 0
    /\ instruments = [i \in {} |-> 0]
    /\ call = NoCall
    /\ pc = "idle"
    /\ currentPattern = NoPattern
    /\ currentSong = NoSong
    /\ isPlaying = FALSE
    /\ currentRow = 0
    /\ currentSequence = 0
    /\ nextNoteTime = 0
    /\ tempo = 120
    /\ timerID = NoTimer
    /\ lastNotePerTrack = [i \in {} |-> 0]
    /\ rowTrace = NoRow
    /\ audio = FALSE
    /\ masterGain = NoGain
    /\ samples = {}
    /\ events = <<>>
    /\ loading = FALSE
    /\ loads = <<>>

Init ==
    /\ EngineInit
    /\ codec = NoCodec

\* One instrument node driven directly: the editor's updates, the keyboard's
\* notes, the cleanup timers and the clock.
NodeNext ==
    \/ InitAudioContext
    \/ \E inst \in EditorInstruments : EngineUpdateInstrument("00", inst)
    \/ \E n \in Tones : NodeNoteOn("00", n, 0)
    \/ \E n \in Tones : NodeNoteOff("00", n, 0)
    \/ NodeReleaseAll("00")
    \/ \E v \in 1..MaxVoices : CleanupFire("00", v)
    \/ DetachedCleanupFire("00")
    \/ AdvanceTime

NodeSpec == Init /\ [][NodeNext]_vars

\* One instrument node whose volume and maxVoices the editor changes while
\* the keyboard plays; the clock stands still.
VolumeNext ==
    \/ InitAudioContext
    \/ \E inst \in VolumeInstruments : EngineUpdateInstrument("00", inst)
    \/ \E n \in Tones : NodeNoteOn("00", n, 0)
    \/ \E n \in Tones : NodeNoteOff("00", n, 0)
    \/ NodeReleaseAll("00")

VolumeSpec == Init /\ [][VolumeNext]_vars

\* The instruments of an editor that changes the targets of the two LFOs: a
\* parameter of the voices or of the instrument, the parameter id of an LFO
\* frequency, and the two names of a parameter of LFO 1, for either LFO.
LfoTargets ==
    {Target(VOLUME), Target(PAN), Target(OSCILLATOR_DETUNE),
     Target(FILTER_FREQUENCY), Target(LFO1_FREQUENCY),
     TargetName("lfo1_frequency"),
     TargetName("lfo1_depth")}

LfoInstruments ==
    { [Instrument(1, MaxVoices, "sine", 30) EXCEPT
            !.lfo1.target = t1, !.lfo2.target = t2] :
        t1 \in LfoTargets, t2 \in LfoTargets }

\* One instrument node whose LFO targets the editor changes while the
\* keyboard plays; the clock stands still.
LfoNext ==
    \/ InitAudioContext
    \/ \E inst \in LfoInstruments : EngineUpdateInstrument("00", inst)
    \/ \E n \in Tones : NodeNoteOn("00", n, 0)
    \/ \E n \in Tones : NodeNoteOff("00", n, 0)

LfoSpec == Init /\ [][LfoNext]_vars

\* The instruments of an editor that switches the oscillator to the sampler:
\* without a sample record, with the record the oscillator panel creates
\* (buffer null, one-shot), with a looping record whose buffer is null, and
\* with a loaded sample.
SamplerInstruments ==
    { [Instrument(1, mv, "sampler", 30) EXCEPT !.oscillator.sample = sample] :
        mv \in 1..MaxVoices,
        sample \in {NoSample, Sample("null", "oneshot"),
                    Sample("null", "forward"), Sample("buf", "oneshot")} }

\* One sampler node the keyboard plays; the clock stands still.
SamplerNext ==
    \/ InitAudioContext
    \/ \E inst \in SamplerInstruments : EngineUpdateInstrument("00", inst)
    \/ \E n \in Tones : NodeNoteOn("00", n, 0)
    \/ \E n \in Tones : NodeNoteOff("00", n, 0)
    \/ NodeReleaseAll("00")

SamplerSpec == Init /\ [][SamplerNext]_vars

\* The instruments of an editor that changes the depths of the two LFOs (in
\* percent), the target of LFO 1 and the parameter of LFO 1 that LFO 2
\* modulates.
DepthInstruments ==
    { [Instrument(1, MaxVoices, "sine", 30) EXCEPT
            !.lfo1 = [depth |-> d1, target |-> t1],
            !.lfo2 = [depth |-> d2, target |-> t2]] :
        d1 \in {0, 50}, d2 \in {0, 30},
        t1 \in {Target(VOLUME), Target(FILTER_FREQUENCY)},
        t2 \in {Target(VOLUME), TargetName("lfo1_frequency"),
                TargetName("lfo1_depth")} }

\* One instrument node whose LFO depths the editor changes while the
\* keyboard plays; the clock stands still.
DepthNext ==
    \/ InitAudioContext
    \/ \E inst \in DepthInstruments : EngineUpdateInstrument("00", inst)
    \/ \E n \in Tones : NodeNoteOn("00", n, 0)
    \/ \E n \in Tones : NodeNoteOff("00", n, 0)

DepthSpec == Init /\ [][DepthNext]_vars

\* One instrument node whose amplitude envelope is AD or AR, with the
\* keyboard's notes and releases.  The audio clock runs and the event loop
\* runs every timer callback that is due: both are taken with weak fairness.
\* releaseAll is called while the clock can still reach the time its cleanup
\* is due.
EnvelopeInstrument(type) ==
    [Instrument(1, MaxVoices, "sine", 30) EXCEPT !.envelope.type = type]

EnvelopeInstruments == { EnvelopeInstrument(type) : type \in {"ad", "ar"} }

HeldTones == {60, 62}

ReleaseAllInTime(id) ==
    /\ id \in DOMAIN instruments
    /\ now + releaseTimeOf(instruments[id].instrument) + StopBuffer <= MaxTime
    /\ NodeReleaseAll(id)

EnvelopeNext ==
    \/ InitAudioContext
    \/ \E inst \in EnvelopeInstruments : EngineUpdateInstrument("00", inst)
    \/ \E n \in HeldTones : NodeNoteOn("00", n, 0)
    \/ \E n \in HeldTones : NodeNoteOff("00", n, 0)
    \/ ReleaseAllInTime("00")
    \/ \E v \in 1..MaxVoices : CleanupFire("00", v)
    \/ AdvanceTime

EnvelopeSpec ==
    /\ Init
    /\ [][EnvelopeNext]_vars
    /\ WF_vars(AdvanceTime)
    /\ \A v \in 1..MaxVoices : WF_vars(CleanupFire("00", v))

\* One instrument node with a release phase (ADSR) or without one (AD), one
\* key pressed and released again and again, under the same fairness.
ReleasedInstruments ==
    { EnvelopeInstrument(type) : type \in {"ad", "adsr"} }

ReleaseNext ==
    \/ InitAudioContext
    \/ \E inst \in ReleasedInstruments : EngineUpdateInstrument("00", inst)
    \/ NodeNoteOn("00", 60, 0)
    \/ NodeNoteOff("00", 60, 0)
    \/ ReleaseAllInTime("00")
    \/ \E v \in 1..MaxVoices : CleanupFire("00", v)
    \/ AdvanceTime

ReleaseSpec ==
    /\ Init
    /\ [][ReleaseNext]_vars
    /\ WF_vars(AdvanceTime)
    /\ \A v \in 1..MaxVoices : WF_vars(CleanupFire("00", v))

----------------------------------------------------------------------------
\* The scheduler driven through the engine: instruments are registered,
\* a pattern or a song is set, playback is started and stopped.

PlayedInstrument == Instrument(1, MaxVoices, "sine", 30)

\* A note, a note-off sentinel, a parameter control note.
Tone(row, track, instrument, tone) == Note(row, track, instrument, tone, 255, 0, 0)
Off(row, track, instrument) == Note(row, track, instrument, NOTE_OFF_TONE, 0, 0, 0)
Param(row, track, instrument, parameterId, value) ==
    Note(row, track, instrument, 60, 255, PARAM_EFFECT, parameterId * 256 + value)

\* Row 1 lists the sentinel of track 0 before the note of track 1.
PatternA ==
    Pattern("A", 150, 2,
        <<Tone(0, 0, "00", 60),
          Off(1, 0, "00"), Tone(1, 1, "00", 62)>>)

\* At twice the tempo.  A parameter control note that sets maxVoices to the
\* raw value 0, and a note of an instrument nobody registered.
PatternB ==
    Pattern("B", 300, 2,
        <<Param(0, 0, "00", MAX_VOICES, 0), Tone(0, 2, "02", 60),
          Tone(1, 0, "00", 62)>>)

\* Layered over PatternA in the song: its row-0 sentinel names another
\* instrument than the note of track 0; its row 1 has a parameter control note
\* of an id the switch does not know, starts a note on the track PatternA's
\* sentinel releases, and its sentinel of track 1 names another instrument
\* than PatternA's note there.
PatternC ==
    Pattern("C", 150, 2,
        <<Off(0, 0, "01"),
          Param(1, 2, "00", 153, 7), Tone(1, 0, "00", 64), Off(1, 1, "01")>>)

\* At twice the tempo.  Row 0 starts tone 60 on track 1 and has parameter
\* control notes for the pan and for the depth of LFO 1; row 1 starts the
\* same tone of the same instrument on track 0 and has the sentinel of
\* track 1.
PatternD ==
    Pattern("D", 300, 2,
        <<Tone(0, 1, "00", 60), Param(0, 2, "00", PAN, 128),
          Param(0, 3, "00", LFO1_DEPTH, 128),
          Tone(1, 0, "00", 60), Off(1, 1, "00")>>)

Patterns == {PatternA, PatternB}
SongSequence == << <<"A", "C">> >>
SongPatterns == <<PatternA, PatternC>>

Next ==
    \/ InitAudioContext
    \/ \E id \in InstrumentIds : EngineUpdateInstrument(id, PlayedInstrument)
    \/ \E p \in Patterns : SetPattern(p)
    \/ SetSong(SongSequence, SongPatterns)
    \/ Play
    \/ Stop
    \/ SchedulerWake
    \/ SchedulerRow
    \/ SchedulerArm
    \/ \E id \in InstrumentIds : \E v \in 1..MaxVoices : CleanupFire(id, v)
    \/ \E id \in InstrumentIds : DetachedCleanupFire(id)
    \/ AdvanceTime

Spec == Init /\ [][Next]_vars

\* The scheduler playing the pattern whose tracks share an instrument and a
\* tone and whose parameter control notes move the pan and an LFO depth.
\* (No pool changes its shape here, so no voice is dropped with a timer.)
AutomationNext ==
    \/ InitAudioContext
    \/ EngineUpdateInstrument("00", PlayedInstrument)
    \/ SetPattern(PatternD)
    \/ Play
    \/ Stop
    \/ SchedulerWake
    \/ SchedulerRow
    \/ SchedulerArm
    \/ \E v \in 1..MaxVoices : CleanupFire("00", v)
    \/ AdvanceTime

AutomationSpec == Init /\ [][AutomationNext]_vars

----------------------------------------------------------------------------
\* The engine driven through its whole interface: projects and samples are
\* loaded, the master volume is set, playback is started, stopped and moved.
\* The clock stands still, so no timer that was armed comes due.

SamplerInstrument ==
    [Instrument(1, 1, "sampler", 30) EXCEPT
        !.oscillator.sample = Sample("null", "oneshot")]
BareSamplerInstrument == Instrument(1, 1, "sampler", 30)

\* A project with the played instrument; one that adds a sampler and the
\* encoded sample of it; one whose sampler has no sample record.
Projects ==
    {Project("one", <<Entry("00", PlayedInstrument)>>, {}),
     Project("two", <<Entry("00", PlayedInstrument),
                      Entry("01", SamplerInstrument)>>, {"01"}),
     Project("bare", <<Entry("00", PlayedInstrument),
                       Entry("01", BareSamplerInstrument)>>, {})}

\* PatternA and PatternC after an edit (other notes, twice the tempo), and a
\* pattern that is not being played.
EditedPatterns ==
    {Pattern("A", 300, 2, <<Tone(0, 0, "00", 64), Tone(1, 0, "00", 64)>>),
     Pattern("C", 300, 2, <<Tone(0, 1, "00", 64), Tone(1, 1, "00", 64)>>),
     Pattern("E", 300, 2, <<Tone(0, 0, "00", 64)>>)}

EngineNext ==
    \/ InitAudioContext
    \/ EngineUpdateInstrument("00", PlayedInstrument)
    \/ \E project \in Projects : LoadProject(project)
    \/ LoadSample("01")
    \/ SetVolume(50)
    \/ SetPattern(PatternA)
    \/ SetSong(SongSequence, SongPatterns)
    \/ \E pattern \in EditedPatterns : UpdatePattern(pattern)
    \/ Seek(1)
    \/ Play
    \/ Stop
    \/ SchedulerRow
    \/ SchedulerArm

EngineSpec == Init /\ [][EngineNext]_vars

\* A monophonic instrument.
MonoInstrument == Instrument(1, 1, "sine", 30)

\* Patterns are edited while a monophonic instrument plays them.
EditNext ==
    \/ InitAudioContext
    \/ EngineUpdateInstrument("00", MonoInstrument)
    \/ SetPattern(PatternA)
    \/ SetSong(SongSequence, SongPatterns)
    \/ \E pattern \in EditedPatterns : UpdatePattern(pattern)
    \/ Play
    \/ Stop
    \/ SchedulerWake
    \/ SchedulerRow
    \/ SchedulerArm
    \/ CleanupFire("00", 1)
    \/ AdvanceTime

EditSpec == Init /\ [][EditNext]_vars

\* A song of two sequences, each of one pattern with a tempo of its own, so
\* fast that a pass of the scheduler plays the 16 rows of a sequence and goes
\* on to the next one.
PatternF == Pattern("F", 3000, 2, <<Tone(0, 0, "00", 60)>>)
PatternG == Pattern("G", 5000, 2, <<Tone(0, 0, "00", 62)>>)
TwoSequences == << <<"F">>, <<"G">> >>
TwoPatterns == <<PatternF, PatternG>>
SongProject == Project("song", <<Entry("00", MonoInstrument)>>, {})

SongNext ==
    \/ InitAudioContext
    \/ EngineUpdateInstrument("00", MonoInstrument)
    \/ SetSong(TwoSequences, TwoPatterns)
    \/ LoadProject(SongProject)
    \/ Play
    \/ Stop
    \/ SchedulerWake
    \/ SchedulerRow
    \/ SchedulerArm
    \/ AdvanceTime

SongSpec == Init /\ [][SongNext]_vars

\* A pattern is played while the editor seeks within it, replaces it by a
\* shorter one and edits it down to one row.
PatternH == Pattern("H", 150, 1, <<Tone(0, 0, "00", 62)>>)
ShortenedA == Pattern("A", 150, 1, <<Tone(0, 0, "00", 60)>>)

\* seek(row) to a row of the pattern being played.
SeekInPattern ==
    /\ currentPattern # NoPattern
    /\ \E row \in 0..(currentPattern.rows - 1) : Seek(row)

SeekNext ==
    \/ InitAudioContext
    \/ EngineUpdateInstrument("00", MonoInstrument)
    \/ \E pattern \in {PatternA, PatternH} : SetPattern(pattern)
    \/ UpdatePattern(ShortenedA)
    \/ SeekInPattern
    \/ Play
    \/ Stop
    \/ SchedulerWake
    \/ SchedulerRow
    \/ SchedulerArm
    \/ AdvanceTime

SeekSpec == Init /\ [][SeekNext]_vars

\* Projects are loaded by a caller that does not wait for a load to end
\* before it starts the next one, while a pattern plays; every other call
\* comes in a task of its own, after the continuations have run.  The clock
\* stands still.
LoadedProjects ==
    {Project("one", <<Entry("00", PlayedInstrument)>>, {}),
     Project("two", <<Entry("00", PlayedInstrument),
                      Entry("01", SamplerInstrument)>>, {"01"})}

LoadNext ==
    \/ InitAudioContext /\ loads = <<>>
    \/ EngineUpdateInstrument("00", PlayedInstrument) /\ loads = <<>>
    \/ \E project \in LoadedProjects : LoadProjectBegin(project)
    \/ LoadProjectTick
    \/ SetPattern(PatternA) /\ loads = <<>>
    \/ Play /\ loads = <<>>
    \/ Stop /\ loads = <<>>
    \/ SchedulerRow
    \/ SchedulerArm

LoadSpec == Init /\ [][LoadNext]_vars

\* Patterns without notes are set and played: one with a usual tempo, one
\* whose tempo is zero, one whose tempo is negative.  A pass of the scheduler
\* is a loop that runs to its end without interruption: its turns and the
\* arming of the timer are taken with weak fairness.
PatternQ == Pattern("Q", 150, 2, <<>>)
PatternZ == Pattern("Z", 0, 2, <<>>)
PatternN == Pattern("N", 0 - 150, 2, <<>>)

TempoNext ==
    \/ InitAudioContext
    \/ \E pattern \in {PatternQ, PatternZ, PatternN} : SetPattern(pattern)
    \/ Play
    \/ Stop
    \/ SchedulerWake
    \/ SchedulerRow
    \/ SchedulerArm
    \/ AdvanceTime

TempoSpec ==
    /\ Init
    /\ [][TempoNext]_vars
    /\ WF_vars(SchedulerRow)
    /\ WF_vars(SchedulerArm)

----------------------------------------------------------------------------
\* The note codec driven by the pattern editor: a note is formatted and the
\* text parsed back; the text of a cell is parsed and the note formatted.

\* Every tone, with the smallest and largest value of each other field.
CodecNotes ==
    { CodecNote(i, v, t, e, ev) :
        i \in {<<"0", "0">>, <<"F", "E">>}, v \in {0, 10, 255},
        t \in 0..127, e \in {0, 255}, ev \in {0, 4779, 65535} }

\* The syntactically valid note names: a letter of the table and an octave
\* digit, or the note-off sentinel.
NoteNameTexts ==
    { <<NOTE_NAMES[n], DecimalDigits[o]>> : n \in 1..12, o \in 1..10 }
        \cup { <<"=", "0">> }

CodecTexts ==
    { i \o v \o n \o e \o ev :
        i \in {<<"0", "0">>, <<"F", "E">>},
        v \in {<<"0", "0">>, <<"0", "a">>, <<"F", "F">>},
        n \in NoteNameTexts,
        e \in {<<"0", "0">>, <<"f", "F">>},
        ev \in {<<"0", "0", "0", "0">>, <<"1", "2", "a", "B">>} }

\* The codec variable: the note or the text given, and what the two
\* conversions made of it.
NotParsed == [ok |-> FALSE, note |-> CodecNote(<<>>, NaN, NaN, NaN, NaN)]
CodecInput(from, note, text) ==
    [from |-> from, done |-> FALSE, note |-> note, text |-> text,
     parsed |-> NotParsed, formatted |-> <<>>]

\* The editor holds a note to write into a cell, or the text of a cell.
CodecInit ==
    /\ EngineInit
    /\ codec \in { CodecInput("note", note, <<>>) : note \in CodecNotes }
            \cup { CodecInput("text", NotParsed.note, text) : text \in CodecTexts }

\* parseNoteString(formatNote(note))
FormatThenParse ==
    /\ pc = "idle"
    /\ codec # NoCodec
    /\ codec.from = "note"
    /\ ~codec.done
    /\ codec' = [codec EXCEPT
                    !.done = TRUE,
                    !.text = formatNote(codec.note),
                    !.parsed = parseNoteString(formatNote(codec.note))]
    /\ events' = <<>>
    /\ call' = NoCall
    /\ UNCHANGED <<now, instruments, schedVars, audio, masterGain, samples,
                   loads>>

\* formatNote(parseNoteString(text)), when the parse returns a note whose
\* fields are numbers.
ParseThenFormat ==
    /\ pc = "idle"
    /\ codec # NoCodec
    /\ codec.from = "text"
    /\ ~codec.done
    /\ LET parsed == parseNoteString(codec.text)
       IN  codec' = [codec EXCEPT
                        !.done = TRUE,
                        !.parsed = parsed,
                        !.note = parsed.note,
                        !.formatted = IF parsed.ok /\ parsed.note.tone # NaN
                                      THEN formatNote(parsed.note) ELSE <<>>]
    /\ events' = <<>>
    /\ call' = NoCall
    /\ UNCHANGED <<now, instruments, schedVars, audio, masterGain, samples,
                   loads>>

CodecNext ==
    \/ FormatThenParse
    \/ ParseThenFormat

CodecSpec == CodecInit /\ [][CodecNext]_vars

----------------------------------------------------------------------------
\* Properties of the instrument node (checked under NodeSpec).

poolOf(id) == instruments[id].voicePool
holders(pool, n) == {i \in 1..Len(pool) : pool[i].midiNote = n}
inAttack(voice, attack, t) == voice.startTime + attack > t

\* The step is a noteOn(n) on node id that returned normally.
NoteOnStep(id) ==
    /\ call'.op = "noteOn" /\ call'.id = id /\ ~call'.threw
    /\ id \in DOMAIN instruments

\* ... and it had to steal: no voice held n, no voice was idle.
StealStep(id) ==
    /\ NoteOnStep(id)
    /\ holders(poolOf(id), call'.midiNote) = {}
    /\ \A i \in 1..Len(poolOf(id)) : poolOf(id)[i].isActive

\* The voice a noteOn step gave the note to.
voiceGiven(id) ==
    CHOOSE i \in 1..Len(instruments'[id].voicePool) :
        instruments'[id].voicePool[i].midiNote = call'.midiNote

\* C2: at any moment the number of active voices of an instrument is at most
\* its current maxVoices.
C2_ActiveWithinMaxVoices ==
    \A id \in DOMAIN instruments :
        Cardinality(activeVoices(instruments[id]))
            <= instruments[id].instrument.maxVoices

\* C4: a noteOn(n) issued while a voice holds n gives the note to that voice
\* and to no other, and at all times at most one voice of a pool carries a
\* given MIDI note.
C4_RetriggerStep ==
    \A id \in InstrumentIds :
        (NoteOnStep(id) /\ holders(poolOf(id), call'.midiNote) # {})
            => holders(instruments'[id].voicePool, call'.midiNote)
                 = holders(poolOf(id), call'.midiNote)
C4_OneVoicePerNote ==
    \A id \in DOMAIN instruments :
        \A n \in Tones : Cardinality(holders(poolOf(id), n)) <= 1
C4_RetriggerReusesVoice ==
    [][C4_RetriggerStep]_vars /\ []C4_OneVoicePerNote
C4_Witness ==
    /\ call.op = "noteOn" /\ call.held /\ ~call.threw
    /\ Cardinality(activeVoices(instruments[call.id])) >= 2
    /\ Cardinality(holders(poolOf(call.id), call.midiNote)) = 1

\* C5: a steal never takes a voice that is still in its attack phase
\* (startTime + attack > now) unless every voice of the pool is.
C5_Step ==
    \A id \in InstrumentIds :
        StealStep(id) =>
            LET attack == instruments[id].instrument.envelope.attack
                pool == poolOf(id)
            IN  inAttack(pool[voiceGiven(id)], attack, now)
                    => \A j \in 1..Len(pool) : inAttack(pool[j], attack, now)
C5_StealSparesAttack == [][C5_Step]_vars
\* A steal that left a voice in its attack phase alone.
C5_Witness ==
    /\ call.op = "noteOn" /\ ~call.held /\ ~call.idle /\ ~call.threw
    /\ \E j \in 1..Len(poolOf(call.id)) :
          /\ poolOf(call.id)[j].midiNote # call.midiNote
          /\ poolOf(call.id)[j].startTime < now
          /\ inAttack(poolOf(call.id)[j],
                      instruments[call.id].instrument.envelope.attack, now)

\* C6: a steal takes the voice with the smallest startTime among the voices
\* past their attack phase; when all voices are in attack, the voice with
\* the smallest startTime of the whole pool, whatever its index.
C6_Step ==
    \A id \in InstrumentIds :
        StealStep(id) =>
            LET attack == instruments[id].instrument.envelope.attack
                pool == poolOf(id)
                past == {j \in 1..Len(pool) : ~inAttack(pool[j], attack, now)}
                among == IF past # {} THEN past ELSE 1..Len(pool)
            IN  /\ voiceGiven(id) \in among
                /\ \A j \in among :
                      pool[voiceGiven(id)].startTime <= pool[j].startTime
C6_StealsOldest == [][C6_Step]_vars

\* C7: an update that changes neither maxVoices nor the oscillator category
\* leaves every active voice active with its MIDI note.
category(type) ==
    IF type = "noise" THEN "noise" ELSE IF type = "sampler" THEN "sampler"
    ELSE "tonal"
C7_Step ==
    \A id \in InstrumentIds :
        ( /\ call'.op = "updateInstrument" /\ call'.id = id
          /\ id \in DOMAIN instruments
          /\ instruments'[id].instrument.maxVoices
               = instruments[id].instrument.maxVoices
          /\ category(instruments'[id].instrument.oscillator.type)
               = category(instruments[id].instrument.oscillator.type) )
        => \A v \in activeVoices(instruments[id]) :
              /\ v \in activeVoices(instruments'[id])
              /\ instruments'[id].voicePool[v].midiNote = poolOf(id)[v].midiNote
C7_UpdateKeepsVoices == [][C7_Step]_vars

----------------------------------------------------------------------------
\* Properties of the playback scheduler (checked under Spec).

steps == rowTrace.steps
issued(k, op) == \E c \in 1..Len(steps[k].calls) : steps[k].calls[c].op = op
\* The place of the note of step k in the list of the row's notes.
listIndex(k) ==
    IF steps[k].pass = 1 THEN k
    ELSE k - Cardinality({m \in 1..Len(steps) : steps[m].pass = 1})
\* Step k is the second-pass dispatch of a note-off sentinel.
sentinel(k) ==
    /\ steps[k].pass = 2
    /\ steps[k].note.tone = NOTE_OFF_TONE
    /\ steps[k].note.effect # PARAM_EFFECT
\* Step i started a note on the track and instrument of step k's note.
startedFor(i, k) ==
    /\ steps[i].pass = 1
    /\ issued(i, "noteOn")
    /\ steps[i].note.track = steps[k].note.track
    /\ steps[i].note.instrument = steps[k].note.instrument

\* C1: in the dispatch of one row every noteOn call is made before any noteOff
\* or updateInstrument call, wherever the notes stand in the row's list.
C1_NoteOnsFirst ==
    \A i, j \in 1..Len(steps) :
        (issued(i, "noteOn")
            /\ (issued(j, "noteOff") \/ issued(j, "updateInstrument")))
        => i < j
\* A row of layered patterns whose list has a sentinel and a parameter control
\* note before a playable note, all three acted on.
C1_Witness ==
    /\ currentSong # NoSong
    /\ \E i, j, u \in 1..Len(steps) :
        /\ issued(i, "noteOn")
        /\ issued(j, "noteOff")
        /\ issued(u, "updateInstrument")
        /\ listIndex(j) < listIndex(i)
        /\ listIndex(u) < listIndex(i)

\* C3: after stop() has returned no voice of a registered instrument is active
\* and lastNotePerTrack is empty.
C3_StopSilences ==
    call.op = "stop" =>
        /\ \A id \in DOMAIN instruments : activeVoices(instruments[id]) = {}
        /\ DOMAIN lastNotePerTrack = {}

\* C8: while playback is on, a scheduler pass that is over has left the
\* wake-up timer pending.
C8_PassLeavesTimer ==
    (isPlaying /\ pc = "idle") => timerID # NoTimer

C10_ReleasesNoteOfTheRow ==
    \A k \in 1..Len(steps) :
        (sentinel(k) /\ issued(k, "noteOff")) =>
            \A i \in 1..Len(steps) :
                (startedFor(i, k)
                    /\ \A j \in 1..Len(steps) : startedFor(j, k) => j <= i)
                => steps[k].calls[1].tone = steps[i].note.tone
\* The track held another tone, recorded by an earlier row, when the row began.
C10_Witness ==
    \E k, i \in 1..Len(steps) :
        /\ sentinel(k) /\ issued(k, "noteOff")
        /\ startedFor(i, k)
        /\ steps[k].note.track \in DOMAIN steps[1].before
        /\ steps[1].before[steps[k].note.track].instrument
                = steps[k].note.instrument
        /\ steps[1].before[steps[k].note.track].tone # steps[i].note.tone
        /\ steps[k].calls[1].tone = steps[i].note.tone

\* C11: no noteOff of a row releases the voice that a noteOn of another track
\* triggered in the same row.
C11_SentinelSparesOtherTracks ==
    \A k, i \in 1..Len(steps) :
        (/\ issued(k, "noteOff") /\ steps[k].voice # NoVoice
         /\ steps[i].pass = 1 /\ issued(i, "noteOn")
         /\ steps[i].note.track # steps[k].note.track
         /\ steps[i].note.instrument = steps[k].calls[1].id)
        => steps[i].voice # steps[k].voice

\* C12: in one row the time every noteOn takes effect at is at most the time
\* every noteOff and every updateInstrument takes effect at.
C12_NoteOnTimesFirst ==
    \A i, j \in 1..Len(steps) :
        (issued(i, "noteOn")
            /\ (issued(j, "noteOff") \/ issued(j, "updateInstrument")))
        => steps[i].calls[1].time <= steps[j].calls[1].time

\* C13: the note time of a row is the note time of the row dispatched before
\* it plus 60 / tempo / 4 s (15000 / tempo ms), with the tempo in force when
\* that row was dispatched; it is later.
C13_RowTimesAdvance ==
    (rowTrace.dispatched /\ rowTrace.prev.valid) =>
        /\ rowTrace.time = rowTrace.prev.time + 15000 \div rowTrace.prev.tempo
        /\ rowTrace.time > rowTrace.prev.time
\* A row dispatched after the tempo changed.
C13_Witness ==
    /\ rowTrace.dispatched /\ rowTrace.prev.valid
    /\ rowTrace.tempo # rowTrace.prev.tempo
    /\ rowTrace.steps # <<>>

\* The step dispatches a row.
DispatchStep == pc = "loop" /\ call'.op = "scheduleNotes"

\* C14: in song mode a sequence lasts as many rows as its longest pattern has;
\* after its last row currentRow is 0, currentSequence is the next one modulo
\* the song length and the tempo is that of its first listed pattern.
C14_Step ==
    (/\ DispatchStep /\ rowTrace'.emitted
     /\ currentPattern = NoPattern /\ currentSong # NoSong /\ ~noSequence)
    => LET sequence == currentSong.sequence[currentSequence + 1]
           longest == maxRowsOf(currentSong, sequence, 1, 0)
           next == (currentSequence + 1) % Len(currentSong.sequence)
       IN  IF currentRow + 1 = longest
           THEN /\ currentRow' = 0
                /\ currentSequence' = next
                /\ tempo' = tempoOfSequence(currentSong, next, tempo)
           ELSE /\ currentRow' = currentRow + 1
                /\ UNCHANGED <<currentSequence, tempo>>
C14_SequenceLastsLongestPattern == [][C14_Step]_vars

\* C15: in pattern mode every dispatched row emits rowChange, the first row
\* after play() is row 0 and, the pattern unchanged, a row follows row r as
\* (r + 1) mod rows.
C15_RowChangePerRow ==
    (rowTrace.dispatched /\ rowTrace.pattern # "") =>
        /\ rowTrace.emitted
        /\ ~rowTrace.prev.valid => rowTrace.row = 0
        /\ (/\ rowTrace.prev.valid
            /\ rowTrace.prev.pattern = rowTrace.pattern
            /\ currentPattern.id = rowTrace.pattern)
           => rowTrace.row = (rowTrace.prev.row + 1) % currentPattern.rows

automated(k, parameterId) ==
    /\ rowTrace'.steps[k].pass = 2
    /\ rowTrace'.steps[k].note.effect = PARAM_EFFECT
    /\ rowTrace'.steps[k].calls # <<>>
    /\ (rowTrace'.steps[k].note.effectValue \div 256) % 256 = parameterId
rawOf(k) == rowTrace'.steps[k].note.effectValue % 256
targetOf(k) == rowTrace'.steps[k].note.instrument

\* C17: a parameter control note of PAN with raw value r sets the pan of the
\* instrument to (r / 255) * 2 - 1, changes no other field and plays no note.
C17_Step ==
    DispatchStep =>
        \A k \in 1..Len(rowTrace'.steps) :
            automated(k, PAN) =>
                /\ instruments'[targetOf(k)].instrument.pan * 255
                        = 2 * rawOf(k) - 255
                /\ instruments'[targetOf(k)].instrument
                        = [instruments[targetOf(k)].instrument EXCEPT
                             !.pan = instruments'[targetOf(k)].instrument.pan]
                /\ \A i \in 1..Len(rowTrace'.steps) :
                        rowTrace'.steps[i].note = rowTrace'.steps[k].note
                            => ~\E c \in 1..Len(rowTrace'.steps[i].calls) :
                                  rowTrace'.steps[i].calls[c].op = "noteOn"
C17_PanAutomation == [][C17_Step]_vars

\* C18: a parameter control note of MAX_VOICES with raw value r sets maxVoices
\* to floor(1 + 31 * r / 255), within 1..32, and the pool is not empty.
C18_Step ==
    DispatchStep =>
        \A k \in 1..Len(rowTrace'.steps) :
            (automated(k, MAX_VOICES) /\ rowTrace'.emitted) =>
                /\ instruments'[targetOf(k)].instrument.maxVoices
                        = (255 + 31 * rawOf(k)) \div 255
                /\ instruments'[targetOf(k)].instrument.maxVoices \in 1..32
                /\ Len(instruments'[targetOf(k)].voicePool) > 0
C18_MaxVoicesAutomation == [][C18_Step]_vars

\* C19: a parameter control note of LFO1_DEPTH or LFO2_DEPTH with raw value r
\* sets the depth of that LFO to r / 255.
C19_Step ==
    DispatchStep =>
        \A k \in 1..Len(rowTrace'.steps) :
            /\ automated(k, LFO1_DEPTH) =>
                 instruments'[targetOf(k)].instrument.lfo1.depth * 255 = rawOf(k)
            /\ automated(k, LFO2_DEPTH) =>
                 instruments'[targetOf(k)].instrument.lfo2.depth * 255 = rawOf(k)
C19_LfoDepthAutomation == [][C19_Step]_vars

\* C20: an updateInstrument that changes only the volume does not raise and
\* leaves every active voice with its gain times new volume / old volume.
C20_Step ==
    \A id \in DOMAIN instruments :
        (/\ call'.op = "updateInstrument" /\ call'.id = id
         /\ instruments'[id].instrument.volume # instruments[id].instrument.volume
         /\ instruments'[id].instrument
                = [instruments[id].instrument EXCEPT
                     !.volume = instruments'[id].instrument.volume])
        => /\ ~call'.threw
           /\ \A v \in activeVoices(instruments[id]) :
                instruments'[id].voicePool[v].gain
                        * instruments[id].instrument.volume
                    = instruments[id].voicePool[v].gain
                        * instruments'[id].instrument.volume
C20_VolumeUpdateRescales == [][C20_Step]_vars

----------------------------------------------------------------------------
\* Properties of the note codec (checked under CodecSpec).

\* A text with its hexadecimal fields in upper case; the note name as it is.
upperHex(text) ==
    [i \in 1..Len(text) |-> IF i \in {5, 6} THEN text[i] ELSE toUpperCase(text[i])]

\* C24: parseNoteString(formatNote(n)) is n, for every note with a velocity in
\* 0..255, a tone in 0..127, an effect in 0..255, an effect value in 0..65535
\* and an instrument id of two hexadecimal digits.
C24_ParseInvertsFormat ==
    (codec # NoCodec /\ codec.from = "note" /\ codec.done) =>
        (codec.parsed.ok /\ codec.parsed.note = codec.note)

\* C25: formatNote(parseNoteString(s)) is s, up to the case of the hexadecimal
\* fields, for every syntactically valid note string s of 12 characters.
C25_FormatInvertsParse ==
    (codec # NoCodec /\ codec.from = "text" /\ codec.done) =>
        (codec.parsed.ok /\ upperHex(codec.formatted) = upperHex(codec.text))

\* C27: when updateInstrument changes the shape of the pool, every cleanup
\* timer that was pending is cancelled and no voice is active on return.
C27_Step ==
    \A id \in DOMAIN instruments :
        (/\ call'.op = "updateInstrument" /\ call'.id = id /\ ~call'.threw
         /\ instruments[id].instrument.maxVoices
                # instruments'[id].instrument.maxVoices)
        => /\ instruments'[id].timers = {}
           /\ activeVoices(instruments'[id]) = {}

C27_ShapeChangeCancelsTimers == [][C27_Step]_vars

\* C28: a pending cleanup timer is the one whose handle its voice holds, and
\* that voice is in its release, holding no note: a voice that was given a
\* new note has no cleanup pending, so no callback armed for the note before
\* clears it.
C28_CleanupSparesReusedVoice ==
    \A id \in DOMAIN instruments :
        \A tm \in instruments[id].timers :
            ~tm.detached =>
                /\ tm.voice \in 1..Len(poolOf(id))
                /\ poolOf(id)[tm.voice].cleanupTimeout = tm.due
                /\ poolOf(id)[tm.voice].midiNote = NoNote
                /\ poolOf(id)[tm.voice].isActive

\* noteOn took a voice that was in its release with its cleanup pending, and
\* the voice plays the new note with no timer left on it.
C28_Witness ==
    /\ call.op = "noteOn" /\ call.pending /\ ~call.threw
    /\ \E v \in 1..Len(poolOf(call.id)) :
        /\ poolOf(call.id)[v].midiNote = call.midiNote
        /\ poolOf(call.id)[v].isActive
        /\ poolOf(call.id)[v].oscillator = "osc"
        /\ \A tm \in instruments[call.id].timers : tm.voice # v

\* The modulation graph of a node: each LFO feeds its depth-gain, and a
\* depth-gain feeds the node that owns the parameter it is connected to.
ownerOf(destination) ==
    IF destination.param = "lfo1.frequency" THEN "lfo1"
    ELSE IF destination.param = "lfo1Gain.gain" THEN "lfo1Gain"
    ELSE IF destination.param = "lfo2.frequency" THEN "lfo2"
    ELSE IF destination.param = "lfo2Gain.gain" THEN "lfo2Gain"
    ELSE "output"

modulationEdges(node) ==
    {<<"lfo1", "lfo1Gain">>, <<"lfo2", "lfo2Gain">>}
        \cup {<<"lfo1Gain", ownerOf(d)>> : d \in node.lfo1Gain}
        \cup {<<"lfo2Gain", ownerOf(d)>> : d \in node.lfo2Gain}

RECURSIVE reachableFrom(_, _, _)
reachableFrom(edges, seen, k) ==
    IF k = 0 THEN seen
    ELSE reachableFrom(edges,
            seen \cup {e[2] : e \in {f \in edges : f[1] \in seen}}, k - 1)

hasCycle(node) ==
    \E n \in {"lfo1", "lfo1Gain", "lfo2", "lfo2Gain"} :
        n \in reachableFrom(modulationEdges(node),
                 {e[2] : e \in {f \in modulationEdges(node) : f[1] = n}}, 4)

\* C26: the depth-gain of LFO 1 is never connected to a parameter of an LFO
\* or of a depth-gain, whatever the targets of the two LFOs are, and the
\* modulation graph has no cycle.
C26_Lfo1NeverFeedsAnLfo ==
    \A id \in DOMAIN instruments :
        /\ \A r \in instruments[id].lfo1Gain : ownerOf(r) = "output"
        /\ ~hasCycle(instruments[id])

\* updateInstrument was given a name of a parameter of LFO 1 as the target
\* of LFO 1 while LFO 2 feeds the frequency of LFO 1.
C26_Witness ==
    /\ call.op = "updateInstrument" /\ ~call.threw
    /\ call.id \in DOMAIN instruments
    /\ instruments[call.id].instrument.lfo1.target
            = TargetName("lfo1_frequency")
    /\ Route(NoVoice, "lfo1.frequency") \in instruments[call.id].lfo2Gain
    /\ activeVoices(instruments[call.id]) # {}

\* C23: noteOn on a sampler whose node has no sample buffer and whose sample
\* record is absent or has a null buffer returns normally and gives the
\* voice an oscillator (the sine placeholder at the pitch of the note).
C23_Step ==
    \A id \in DOMAIN instruments :
        (/\ call'.op = "noteOn" /\ call'.id = id
         /\ instruments[id].instrument.oscillator.type = "sampler"
         /\ instruments[id].sampleBuffer = "null"
         /\ instruments[id].instrument.oscillator.sample.buffer = "null"
         /\ getVoice(instruments[id], call'.midiNote, now) # Throws)
        => /\ ~call'.threw
           /\ instruments'[id].voicePool[voiceGiven(id)].oscillator = "osc"

C23_SamplerFallsBackToSine == [][C23_Step]_vars

\* C29: a row is dispatched only when its note time is less than
\* now + scheduleAheadTime, and when a scheduler pass ends nextNoteTime is at
\* least now + scheduleAheadTime.
C29_Step ==
    /\ DispatchStep => nextNoteTime < now + scheduleAheadTime
    /\ (pc = "loop" /\ pc' = "idle")
            => nextNoteTime' >= now' + scheduleAheadTime

C29_PassFillsTheWindow == [][C29_Step]_vars

\* The methods of the engine that claim C21 names.
ApiOps ==
    {"updateInstrument", "loadProject", "loadSample", "setVolume", "play",
     "stop", "setPattern", "setSong", "seek", "updatePattern"}

\* C21: before initAudioContext() a call of updateInstrument, loadProject,
\* loadSample, setVolume, play, stop, setPattern, setSong, seek or
\* updatePattern leaves the registry, the sample store and the playback state
\* as they were, emits no event and raises no error.
C21_Step ==
    (~audio /\ call'.op \in ApiOps)
    => /\ UNCHANGED <<instruments, samples, schedVars, masterGain>>
       /\ events' = <<>>
       /\ ~call'.threw

C21_IgnoredBeforeInit == [][C21_Step]_vars

projectNamed(name) == CHOOSE project \in Projects : project.name = name
lastOf(seq) == IF seq = <<>> THEN "" ELSE seq[Len(seq)]

\* C22: when loadProject(p) is over, the registry has one new node for each
\* instrument of p and no other node, the engine plays if and only if it
\* played when loadProject was called, and projectLoaded is the last event.
C22_Step ==
    /\ (audio /\ call'.op = "loadProject")
        => LET entries == projectNamed(call'.id).instruments
           IN  /\ ~call'.threw
               /\ DOMAIN instruments' =
                    {entries[k].id : k \in 1..Len(entries)}
               /\ \A k \in 1..Len(entries) :
                    LET node == instruments'[entries[k].id]
                    IN  /\ node.instrument.oscillator.type =
                                entries[k].instrument.oscillator.type
                        /\ Len(node.voicePool) =
                                entries[k].instrument.maxVoices
                        /\ activeVoices(node) = {}
                        /\ node.timers = {}
               /\ isPlaying' = isPlaying
               /\ ~loading' => lastOf(events') = "projectLoaded"
    /\ (loading /\ ~loading')
        => /\ isPlaying'
           /\ lastOf(events') = "projectLoaded"

C22_LoadProjectReplacesRegistry == [][C22_Step]_vars

editedPattern(id) == CHOOSE pattern \in EditedPatterns : pattern.id = id
rangeOf(seq) == {seq[k] : k \in 1..Len(seq)}

\* C30: updatePattern(p) calls no node and leaves currentRow, nextNoteTime,
\* isPlaying and lastNotePerTrack as they were; when p has the id of the
\* pattern being played the next row is read from p, when it has the id of
\* a pattern of the song being played that pattern is p afterwards and the
\* next row of a sequence that lists it has p's notes; when the id matches
\* nothing the scheduler is left as it was, tempo included.
C30_Step ==
    (audio /\ call'.op = "updatePattern")
    => LET pattern == editedPattern(call'.id)
           inSong == /\ currentPattern = NoPattern
                     /\ currentSong # NoSong
                     /\ findPattern(currentSong.patterns, pattern.id) # 0
       IN  /\ events' = <<>>
           /\ UNCHANGED <<instruments, currentRow, nextNoteTime, isPlaying,
                          lastNotePerTrack, currentSequence, timerID>>
           /\ (currentPattern # NoPattern /\ currentPattern.id = pattern.id)
                => /\ currentPattern' = pattern
                   /\ notesToSchedule' = filterRow(pattern.notes, currentRow, 1)
           /\ inSong
                => /\ currentSong'.patterns[
                        findPattern(currentSong'.patterns, pattern.id)] = pattern
                   /\ \A k \in 1..Len(currentSong.patterns) :
                        currentSong.patterns[k].id # pattern.id
                            => currentSong'.patterns[k] = currentSong.patterns[k]
                   /\ (/\ currentSequence + 1 \in 1..Len(currentSong.sequence)
                       /\ pattern.id \in rangeOf(
                                currentSong.sequence[currentSequence + 1]))
                        => rangeOf(filterRow(pattern.notes, currentRow, 1))
                                \subseteq rangeOf(notesToSchedule')
           /\ (~inSong /\ ~(currentPattern # NoPattern
                              /\ currentPattern.id = pattern.id))
                => UNCHANGED schedVars

C30_UpdatePatternInPlace == [][C30_Step]_vars

\* A row of the pattern being played was dispatched with the notes and the
\* tempo of the edit, after a row that was dispatched before the edit.
C30_Witness ==
    /\ isPlaying /\ rowTrace.dispatched /\ rowTrace.prev.valid
    /\ rowTrace.pattern = "A" /\ rowTrace.prev.pattern = "A"
    /\ rowTrace.prev.tempo = 150 /\ rowTrace.tempo = 300
    /\ \E k \in 1..Len(rowTrace.steps) : rowTrace.steps[k].note.tone = 64

\* The parameter of a voice that an LFO target names.
voiceParamOf(target) ==
    IF target = Target(PAN) THEN "pan.pan"
    ELSE IF target = Target(FILTER_FREQUENCY) THEN "voiceFilter.frequency"
    ELSE IF target = Target(FILTER_RESONANCE) THEN "voiceFilter.Q"
    ELSE ""

connectedToEveryVoice(node, lfoGain, target) ==
    voiceParamOf(target) # ""
        => \A v \in 1..Len(node.voicePool) :
                Route(v, voiceParamOf(target)) \in lfoGain

\* C31: when updateInstrument returns, the depth-gain of an LFO whose target
\* is PAN, FILTER_FREQUENCY or FILTER_RESONANCE is connected to that
\* parameter of every voice of the pool.
C31_Step ==
    \A id \in DOMAIN instruments' :
        (/\ call'.op \in {"createInstrument", "updateInstrument"}
         /\ call'.id = id /\ ~call'.threw)
        => LET node == instruments'[id]
           IN  /\ connectedToEveryVoice(node, node.lfo1Gain,
                                        node.instrument.lfo1.target)
               /\ connectedToEveryVoice(node, node.lfo2Gain,
                                        node.instrument.lfo2.target)

C31_LfoReachesEveryVoice == [][C31_Step]_vars

\* C32: the gain of the depth-gain of LFO 1 is range(lfo1.target) times
\* lfo1.depth whatever the target of LFO 2 is; the gain of the depth-gain of
\* LFO 2 is 20 times its depth for lfo1_frequency and its depth for
\* lfo1_depth.  (Gains in hundredths, depths in percent.)
C32_DepthGainIsRangeTimesDepth ==
    \A id \in DOMAIN instruments :
        LET node == instruments[id]
            lfo1 == node.instrument.lfo1
            lfo2 == node.instrument.lfo2
        IN  /\ node.lfo1Depth = getModulationRange(lfo1.target) * lfo1.depth
            /\ lfo2.target = TargetName("lfo1_frequency")
                    => node.lfo2Depth = 20 * lfo2.depth
            /\ lfo2.target = TargetName("lfo1_depth")
                    => node.lfo2Depth = lfo2.depth


----------------------------------------------------------------------------
\* Voices and their envelopes.

voiceOf(v) ==
    IF "00" \in DOMAIN instruments /\ v <= Len(instruments["00"].voicePool)
    THEN instruments["00"].voicePool[v]
    ELSE createVoice

decaying(v) ==
    /\ "00" \in DOMAIN instruments
    /\ instruments["00"].instrument.envelope.type \in {"ad", "ar"}
    /\ voiceOf(v).isActive
    /\ voiceOf(v).midiNote # NoNote

\* The ramps applyAmplitudeEnvelope scheduled for the voice have ended: the
\* gain is back at 0.
decayed(v) ==
    LET envelope == instruments["00"].instrument.envelope
    IN  now >= voiceOf(v).startTime + envelope.attack
                + (IF envelope.type = "ad" THEN envelope.decay
                   ELSE envelope.release)

\* C33: a voice that note_on triggered on an instrument with an AD or AR
\* amplitude envelope, and whose envelope has decayed to zero, eventually
\* becomes inactive, unless another operation of the node (note_on,
\* note_off, release_all, update_instrument) is called first.
C33_DecayedVoiceReturnsToIdle ==
    \A v \in 1..MaxVoices :
        [](decaying(v) /\ decayed(v) /\ call = NoCall
            => <>(~voiceOf(v).isActive \/ call # NoCall))

releasing(v) == voiceOf(v).isActive /\ voiceOf(v).midiNote = NoNote

\* C34: a voice that was released (by note_off or release_all) eventually is
\* inactive and without a source, unless a note_on takes it first; further
\* releases in between do not prevent it.
C34_ReleasedVoiceIsCleanedUp ==
    \A v \in 1..MaxVoices :
        [](releasing(v) =>
            <>(\/ ~voiceOf(v).isActive /\ voiceOf(v).oscillator = "null"
               \/ voiceOf(v).midiNote # NoNote))

\* A voice in its release phase releaseAll re-armed the cleanup of.
C34_Witness ==
    /\ call.op = "releaseAll"
    /\ \E v \in 1..MaxVoices :
        /\ releasing(v)
        /\ voiceOf(v).startTime < now
        /\ voiceOf(v).cleanupTimeout > now


----------------------------------------------------------------------------
\* The stream of playback events.

isPlaybackEvent(e) == e \in {"playStart", "rowChange", "playStop"}

\* Whether the scheduler is playing after the events seq[k..], read from a
\* scheduler that was playing or not: playStart comes when stopped, rowChange
\* and playStop when playing; "bad" when an event is out of place.
RECURSIVE streamAfter(_, _, _)
streamAfter(seq, k, state) ==
    IF k > Len(seq) \/ state = "bad" THEN state
    ELSE streamAfter(seq, k + 1,
            IF seq[k] = "playStart"
            THEN (IF state = "stopped" THEN "playing" ELSE "bad")
            ELSE IF seq[k] = "rowChange"
            THEN (IF state = "playing" THEN "playing" ELSE "bad")
            ELSE (IF state = "playing" THEN "stopped" ELSE "bad"))

streamState(playing) == IF playing THEN "playing" ELSE "stopped"

playbackVars ==
    <<instruments, pc, currentPattern, currentSong, isPlaying, currentRow,
      currentSequence, nextNoteTime, tempo, timerID, lastNotePerTrack>>

C35_Step ==
    /\ streamAfter(SelectSeq(events', isPlaybackEvent), 1,
                   streamState(isPlaying)) = streamState(isPlaying')
    /\ (Play /\ isPlaying) => events' = <<>> /\ UNCHANGED playbackVars
    /\ (Stop /\ ~isPlaying) => events' = <<>> /\ UNCHANGED playbackVars
    /\ (Play /\ currentPattern = NoPattern /\ currentSong = NoSong)
            => events' = <<>> /\ ~isPlaying'
    /\ SchedulerRow => isPlaying
    /\ pc' = "loop" => isPlaying'

\* C35: the events playStart, rowChange and playStop of every step continue
\* a stream of the shape (playStart rowChange* playStop)*; play() while
\* playing and stop() while stopped emit nothing and change nothing; play()
\* without a pattern or a song emits nothing and leaves isPlaying false; rows
\* are dispatched only while playing.
C35_EventStreamShape == [][C35_Step]_vars

\* stop() ends a playback that has dispatched rows.
C35_Witness ==
    /\ events = <<"playStop">>
    /\ ~isPlaying
    /\ nextNoteTime > now
    /\ timerID = NoTimer


----------------------------------------------------------------------------
\* The tempo of a song.

\* C36: whenever the scheduler is about to dispatch a row of a song, its tempo
\* is the tempo of the first listed pattern of the current sequence, when the
\* song has that pattern.
C36_SongTempoAtDispatch ==
    (/\ pc = "loop"
     /\ nextNoteTime < now + scheduleAheadTime
     /\ currentPattern = NoPattern
     /\ currentSong # NoSong
     /\ ~noSequence)
        => LET sequence == currentSong.sequence[currentSequence + 1]
               i == IF Len(sequence) > 0
                    THEN findPattern(currentSong.patterns, sequence[1])
                    ELSE 0
           IN  i # 0 => tempo = currentSong.patterns[i].tempo

\* C37: whenever the scheduler is about to dispatch a row of a pattern, the
\* row index is one of the pattern's rows: 0 <= currentRow < rows.
C37_RowWithinPattern ==
    (/\ pc = "loop"
     /\ nextNoteTime < now + scheduleAheadTime
     /\ currentPattern # NoPattern)
        => currentRow \in 0..(currentPattern.rows - 1)

----------------------------------------------------------------------------
\* The fields of a voice between operations.

pendingCleanup(node, v) ==
    \E tm \in node.timers : ~tm.detached /\ tm.voice = v

\* C38: for every voice of the current pool: an inactive voice has no MIDI
\* note, no source and no pending cleanup timer; a voice carrying a MIDI note
\* is active and has a source; a voice with a pending cleanup timer is
\* active, has a source and carries no MIDI note.  Hence no note_on raises
\* for starting a source that was started before: a note_on that raised
\* (no voice, no source could be created) has not come as far as
\* initializing a voice with its note.
C38_VoiceFieldsAgree ==
    /\ \A id \in DOMAIN instruments :
        LET node == instruments[id]
        IN  \A v \in 1..Len(node.voicePool) :
              LET voice == node.voicePool[v]
              IN  /\ ~voice.isActive
                        => /\ voice.midiNote = NoNote
                           /\ voice.oscillator = "null"
                           /\ ~pendingCleanup(node, v)
                  /\ voice.midiNote # NoNote
                        => voice.isActive /\ voice.oscillator # "null"
                  /\ pendingCleanup(node, v)
                        => /\ voice.isActive
                           /\ voice.oscillator # "null"
                           /\ voice.midiNote = NoNote
    /\ (call.op = "noteOn" /\ call.threw /\ call.id \in DOMAIN instruments)
            => \A v \in 1..Len(instruments[call.id].voicePool) :
                 instruments[call.id].voicePool[v].midiNote # call.midiNote

\* note_on has taken the idle voice of a pool whose other voice is in its
\* release phase, the cleanup pending.
C38_Witness ==
    /\ call.op = "noteOn"
    /\ "00" \in DOMAIN instruments
    /\ LET node == instruments["00"]
       IN  \E v, w \in 1..Len(node.voicePool) :
              /\ pendingCleanup(node, v)
              /\ node.voicePool[w].midiNote # NoNote
              /\ node.voicePool[w].startTime > node.voicePool[v].startTime

----------------------------------------------------------------------------
\* Overlapping loads.

\* C39: when the last of several overlapping loadProject calls completes,
\* the registry holds exactly the instruments of the project of the call
\* made last, and the sample store holds exactly that project's samples.
C39_Step ==
    (/\ Len(loads) = 1
     /\ loads' = <<>>
     /\ loads[1].overlapped)
        => LET project == CHOOSE p \in LoadedProjects :
                                p.name = loads[1].latest
           IN  /\ DOMAIN instruments' =
                    {project.instruments[k].id :
                        k \in 1..Len(project.instruments)}
               /\ samples' = project.sampleData

C39_LastLoadWins == [][C39_Step]_vars

----------------------------------------------------------------------------
\* The catch-up loop of the scheduler.

\* C40: every pass of the scheduler ends: the loop that has started leaves
\* the scheduler again, the wake-up timer armed or an exception raised.
C40_PassTerminates == (pc = "loop") ~> (pc = "idle")

====
